---- MODULE Spec2Model ----
(***************************************************************************)
(* A model of cinnamon-profile-manager (src/main.ts): the profile registry *)
(* (profiles.json), the profile archives, the two backup tiers, the live   *)
(* Cinnamon configuration (directories and the dconf namespace) and the    *)
(* commands create, switch, update, delete, import, restore and backup.    *)
(*                                                                         *)
(* One command invocation is one action.  The outcomes of the external     *)
(* tools (zip, unzip, dconf), of the prompts and of individual file copies *)
(* are the inputs of the action, drawn from small sets.  `trace` records   *)
(* the events of the last invocation in the order the code performs them.  *)
(***************************************************************************)
EXTENDS Integers, Sequences, FiniteSets, TLC

VARIABLES
    db,          \* profiles.json: [exists, kind, profiles, raw]
    quarantine,  \* the profiles.json.corrupted-<ms> side files
    zips,        \* profile archives in the profiles root: path -> content
    ghost,       \* history: path -> the live state and selection it was captured from
    backups,     \* manual tier  (<root>/backup):      set of [prefix, stamp, ts, content]
    autoBackups, \* automatic tier (<root>/auto-backup): set of [prefix, stamp, ts, content]
    exported,    \* export archives in ~/Downloads: set of [name, ts, content]
    live,        \* live configuration: [dirs, dconf]
    temps,       \* number of scratch directories currently on disk
    now,         \* the clock (Date.now / new Date())
    nextId,      \* source of crypto.randomUUID()
    nEdits,      \* environment changes so far
    running,     \* invocations in progress: process -> [pc, cmd, name, profiles, zipFile]
    last         \* the last invocation: [cmd, name, options, exit, trace]

vars == <<db, quarantine, zips, ghost, backups, autoBackups, exported, live, temps,
          now, nextId, nEdits, running, last>>

----------------------------------------------------------------------------
(* Bounds of the model.                                                    *)

MaxCmds == 3     \* command invocations in one behaviour
MaxEdits == 1    \* changes of the live configuration by the environment
MaxVer == 2      \* versions of one file's content (0 = no such file)
MaxProcs == 2    \* invocations in progress at the same time

EntryNames == {"a", "b"}
Ver == 0 .. MaxVer

\* Profile names as the user types them, as sequences of characters.
Names == { <<"w">>, <<"a", " ", "b">> }

----------------------------------------------------------------------------
(* Name sanitisation: name.replace(/[^a-zA-Z0-9-_]/g, "_").                *)

SafeChars ==
    { "a", "b", "c", "d", "e", "f", "g", "h", "i", "j", "k", "l", "m",
      "n", "o", "p", "q", "r", "s", "t", "u", "v", "w", "x", "y", "z",
      "A", "B", "C", "D", "E", "F", "G", "H", "I", "J", "K", "L", "M",
      "N", "O", "P", "Q", "R", "S", "T", "U", "V", "W", "X", "Y", "Z",
      "0", "1", "2", "3", "4", "5", "6", "7", "8", "9", "-", "_" }

Sanitize(name) ==
    [i \in 1 .. Len(name) |-> IF name[i] \in SafeChars THEN name[i] ELSE "_"]

----------------------------------------------------------------------------
(* Directories and the live configuration.                                 *)

CoreLocs == {"share", "config"}
ThemeLocs == {"user-themes", "system-themes", "user-icons", "user-icons-alt",
              "system-icons", "user-fonts", "user-fonts-home", "system-fonts"}
Locs == CoreLocs \cup ThemeLocs

NoEntries == [e \in EntryNames |-> 0]
NoDir == [exists |-> FALSE, ent |-> NoEntries]
EmptyDir == [exists |-> TRUE, ent |-> NoEntries]
DirOf(ent) == [exists |-> TRUE, ent |-> ent]

\* Paths whose copy may fail (permissions, broken symlinks) in an invocation.
FlakyPaths == { <<"share", "b">>, <<"user-themes", "a">> }
BadSets == SUBSET FlakyPaths

\* The scratch directory of withTempDir when it has just been made.
EmptyScratch ==
    [dirs |-> [l \in Locs |-> NoDir],
     dconfFile |-> [exists |-> FALSE, text |-> NoEntries],
     meta |-> [exists |-> FALSE, profileName |-> <<>>]]

----------------------------------------------------------------------------
(* Command options and the component selection derived from them.          *)

\* CommandOptions as the handlers receive them.
Options(ut, st, ui, uia, si, uf, ufa, sf, dc, nb) ==
    [userThemes |-> ut, addSystemThemes |-> st, userIconsLocal |-> ui,
     userIconsHome |-> uia, addSystemIcons |-> si, userFontsLocal |-> uf,
     userFontsHome |-> ufa, addSystemFonts |-> sf, dconf |-> dc, noBackup |-> nb]

DefaultOptions == Options(TRUE, FALSE, TRUE, TRUE, FALSE, TRUE, TRUE, FALSE, TRUE, FALSE)
AllOptions == Options(TRUE, TRUE, TRUE, TRUE, TRUE, TRUE, TRUE, TRUE, TRUE, FALSE)
FilesOnlyOptions ==
    Options(FALSE, FALSE, FALSE, FALSE, FALSE, FALSE, FALSE, FALSE, FALSE, FALSE)
MixedOptions == Options(FALSE, TRUE, TRUE, FALSE, FALSE, FALSE, TRUE, TRUE, FALSE, FALSE)

NoBackup(o) == [o EXCEPT !.noBackup = TRUE]

\* const componentOptions: ComponentOptions = { userThemes: options.userThemes !== false, ... }
ComponentOptionsOf(options) ==
    [userThemes |-> options.userThemes # FALSE,
     systemThemes |-> options.addSystemThemes = TRUE,
     userIcons |-> options.userIconsLocal # FALSE,
     userIconsAlt |-> options.userIconsHome # FALSE,
     systemIcons |-> options.addSystemIcons = TRUE,
     userFonts |-> options.userFontsLocal # FALSE,
     userFontsAlt |-> options.userFontsHome # FALSE,
     systemFonts |-> options.addSystemFonts = TRUE,
     dconf |-> options.dconf # FALSE]

\* The flag of the selection that governs a theme, icon or font location.
EnabledLoc(copts, loc) ==
    CASE loc = "user-themes" -> copts.userThemes
      [] loc = "system-themes" -> copts.systemThemes
      [] loc = "user-icons" -> copts.userIcons
      [] loc = "user-icons-alt" -> copts.userIconsAlt
      [] loc = "system-icons" -> copts.systemIcons
      [] loc = "user-fonts" -> copts.userFonts
      [] loc = "user-fonts-home" -> copts.userFontsAlt
      [] loc = "system-fonts" -> copts.systemFonts
      [] OTHER -> TRUE

----------------------------------------------------------------------------
(* Copying.                                                                *)

\* copyDirectoryContents(sourceDir, destinationDir): the destination is made, every
\* entry of the source is copied over the destination's entry of that name; an entry
\* whose copy throws is skipped.  `loc` names the live location and `bad` the paths
\* whose copy throws in this invocation.
CopyDirectoryContents(loc, source, destination, bad) ==
    IF ~source.exists
    THEN destination
    ELSE [exists |-> TRUE,
          ent |-> [e \in EntryNames |->
                     IF source.ent[e] # 0 /\ <<loc, e>> \notin bad
                     THEN source.ent[e]
                     ELSE destination.ent[e]]]

\* The copies of one pass over `dirs` (live directories when capturing, the
\* extracted subtrees when restoring) that throw and are skipped.
SkippedCopies(dirs, copts, bad) ==
    { p \in bad : EnabledLoc(copts, p[1]) /\ dirs[p[1]].exists /\ dirs[p[1]].ent[p[2]] # 0 }

\* One block of copyThemeDirectories/copyIconDirectories/copyFontDirectories:
\* if (options.X) { if (await exists(DIR)) copyDirectoryContents(DIR, temp/X) }
CaptureLoc(scratch, lv, copts, loc, bad) ==
    IF EnabledLoc(copts, loc) /\ lv.dirs[loc].exists
    THEN [scratch EXCEPT !.dirs[loc] =
              CopyDirectoryContents(loc, lv.dirs[loc], scratch.dirs[loc], bad)]
    ELSE scratch

CopyThemeDirectories(scratch, lv, copts, bad) ==
    CaptureLoc(CaptureLoc(scratch, lv, copts, "user-themes", bad),
               lv, copts, "system-themes", bad)

CopyIconDirectories(scratch, lv, copts, bad) ==
    CaptureLoc(CaptureLoc(CaptureLoc(scratch, lv, copts, "user-icons", bad),
                          lv, copts, "user-icons-alt", bad),
               lv, copts, "system-icons", bad)

CopyFontDirectories(scratch, lv, copts, bad) ==
    CaptureLoc(CaptureLoc(CaptureLoc(scratch, lv, copts, "user-fonts", bad),
                          lv, copts, "user-fonts-home", bad),
               lv, copts, "system-fonts", bad)

CopyThemeIconAndFontDirectories(scratch, lv, copts, bad) ==
    CopyFontDirectories(
        CopyIconDirectories(CopyThemeDirectories(scratch, lv, copts, bad),
                            lv, copts, bad),
        lv, copts, bad)

\* The outcomes of the dconf tool in one invocation: at most one call fails.
DconfOutcomes == {"ok", "dumpFail", "resetFail", "loadFail"}

\* dconf dump /org/cinnamon/: the text is written to org.cinnamon.dconf.ini only
\* if the tool succeeded and printed something.
DumpDconf(scratch, lv, copts, dconfOut) ==
    IF copts.dconf /\ dconfOut # "dumpFail" /\ lv.dconf # NoEntries
    THEN [scratch EXCEPT !.dconfFile = [exists |-> TRUE, text |-> lv.dconf]]
    ELSE scratch

\* The system directories have a try/catch around copyDirectoryContents
\* (system-themes, system-icons, system-fonts); the user directories and the two
\* core directories have none.
SystemLocs == {"system-themes", "system-icons", "system-fonts"}

\* The enabled, existing directories whose Deno.readDir throws.
ListFailures(lv, copts, noList) ==
    { loc \in noList : EnabledLoc(copts, loc) /\ lv.dirs[loc].exists }

\* Deno.readDir throws outside the per-entry try of copyDirectoryContents: with
\* no try/catch around the call the exception leaves the withTempDir callback.
ListThrows(lv, copts, env) == ListFailures(lv, copts, env.noList) \ SystemLocs # {}

\* A caught list failure: the destination was made by Deno.mkdir before
\* Deno.readDir threw, and nothing was copied into it.
Unlisted(scratch, lv, copts, noList) ==
    [scratch EXCEPT !.dirs =
        [loc \in Locs |->
            IF loc \in ListFailures(lv, copts, noList) \cap SystemLocs
            THEN EmptyDir
            ELSE @[loc]]]

\* The staging that create, backup and update perform inside withTempDir: the two
\* core directories, the enabled theme/icon/font directories, the dconf dump.
StageCurrentSettings(lv, copts, env) ==
    LET s1 == [EmptyScratch EXCEPT !.dirs["share"] =
                   CopyDirectoryContents("share", lv.dirs["share"], NoDir, env.bad)]
        s2 == [s1 EXCEPT !.dirs["config"] =
                   CopyDirectoryContents("config", lv.dirs["config"], NoDir, env.bad)]
        s3 == CopyThemeIconAndFontDirectories(s2, lv, copts, env.bad)
    IN  DumpDconf(Unlisted(s3, lv, copts, env.noList), lv, copts, env.dconf)

----------------------------------------------------------------------------
(* The state an invocation works on, as a record of the variables, and the *)
(* outcomes of its environment.                                            *)

State ==
    [db |-> db, quarantine |-> quarantine, zips |-> zips, ghost |-> ghost,
     backups |-> backups, autoBackups |-> autoBackups, exported |-> exported,
     live |-> live,
     temps |-> temps, now |-> now, nextId |-> nextId, exit |-> 0, trace |-> <<>>,
     picked |-> <<>>, shown |-> <<>>]

Ev(s, e) == [s EXCEPT !.trace = Append(@, e)]
Exit(s, code) == [s EXCEPT !.exit = code]

\* The outcomes an invocation meets: the answers to its prompts, the exit status
\* of zip (for a backup, for a profile archive) and unzip, the dconf outcome, the
\* paths whose copy throws, whether Deno.copyFile of the registry succeeds, and
\* whether Deno.remove of a profile archive succeeds.
Envs(confirms, confirms2, backupZips, zipsOk, unzips, dconfs, bads, qCopies) ==
    [confirm : confirms, confirm2 : confirms2, backupZipOk : backupZips,
     zipOk : zipsOk, unzipOk : unzips, dconf : dconfs, bad : bads,
     qCopyOk : qCopies, rmOk : {TRUE}, emptyDirOk : {TRUE}, noList : {{}}]

RemoveFails(env) == [env EXCEPT !.rmOk = FALSE]
EmptyDirFails(env) == [env EXCEPT !.emptyDirOk = FALSE]
CannotList(env, locs) == [env EXCEPT !.noList = locs]

----------------------------------------------------------------------------
(* The registry document.                                                  *)

EmptyDb == [exists |-> TRUE, kind |-> "array", profiles |-> <<>>, raw |-> 0]
Corrupt(d) == d.exists /\ d.kind # "array"

\* ensureAppDirectories(): the root, profiles.json and both backup tiers are made
\* when they are missing.
EnsureAppDirectories(s) ==
    IF s.db.exists THEN s ELSE [s EXCEPT !.db = EmptyDb]

\* readProfiles(): a document that does not parse, or is not an array, is copied
\* to profiles.json.corrupted-<Date.now()> (a failure of the copy is only logged)
\* and replaced by "[]"; the caller gets [].
ReadProfiles(s, env) ==
    IF ~s.db.exists
    THEN [s |-> s, profiles |-> <<>>]
    ELSE IF s.db.kind = "array"
    THEN [s |-> s, profiles |-> s.db.profiles]
    ELSE LET q == IF env.qCopyOk
                  THEN { f \in s.quarantine : f.ts # s.now }
                       \cup {[ts |-> s.now, kind |-> s.db.kind, raw |-> s.db.raw]}
                  ELSE s.quarantine
         IN  [s |-> Ev([s EXCEPT !.quarantine = q, !.db = EmptyDb], "quarantine"),
              profiles |-> <<>>]

\* writeProfiles(profiles): the whole document is replaced.
WriteProfiles(s, profiles) ==
    Ev([s EXCEPT !.db = [exists |-> TRUE, kind |-> "array",
                         profiles |-> profiles, raw |-> 0]],
       "writeProfiles")

IndexOf(profiles, name) ==
    IF \E i \in 1 .. Len(profiles) : profiles[i].name = name
    THEN CHOOSE i \in 1 .. Len(profiles) :
             /\ profiles[i].name = name
             /\ \A j \in 1 .. i - 1 : profiles[j].name # name
    ELSE 0

RemoveAt(seq, i) == [j \in 1 .. Len(seq) - 1 |-> IF j < i THEN seq[j] ELSE seq[j + 1]]

----------------------------------------------------------------------------
(* Scratch directories and archives.                                       *)

\* The directory handed to zip holds no entry at all.
IsEmpty(scratch) ==
    /\ \A l \in Locs : ~scratch.dirs[l].exists
    /\ ~scratch.dconfFile.exists
    /\ ~scratch.meta.exists

\* zipDirectoryContents, first part: an empty source directory is only warned about.
WarnIfEmpty(s, scratch) == IF IsEmpty(scratch) THEN Ev(s, "emptySource") ELSE s

\* zipDirectoryContents, second part: `zip -rq <file> .` run inside the source
\* directory.  zip stores no entry for "." itself, so in a directory without
\* entries it has nothing to do and exits with status 12; otherwise toolOk says
\* whether the tool succeeds.
ZipDirectoryContents(scratch, toolOk) == toolOk /\ ~IsEmpty(scratch)

\* The failure branch of zipDirectoryContents; a failure of the zip tool on a
\* directory it could have packed is told apart in the record of the invocation.
ZipFailed(s, toolOk) ==
    IF toolOk THEN Ev(s, "zipFailed") ELSE Ev(Ev(s, "zipToolFault"), "zipFailed")

\* The warning of the dump block: dconf dump failed or printed nothing.
WarnIfNoDump(s, lv, copts, env) ==
    IF copts.dconf /\ (env.dconf = "dumpFail" \/ lv.dconf = NoEntries)
    THEN Ev(s, "dconfDumpFailed")
    ELSE s

\* The copies of the staging that fail: single entries, or a whole directory
\* that cannot be listed.
WarnOfCopies(s, lv, copts, env) ==
    LET s1 == IF SkippedCopies(lv.dirs, copts, env.bad) # {}
              THEN Ev(s, "captureSkipped") ELSE s
    IN  IF ListFailures(lv, copts, env.noList) # {} THEN Ev(s1, "listFailed") ELSE s1

MakeTempDir(s) == Ev([s EXCEPT !.temps = @ + 1], "mkTemp")

KeepTempDir(s) == Ev(s, "rmTemp")

RemoveTempDir(s) == Ev([s EXCEPT !.temps = @ - 1], "rmTemp")

\* The staging ended by an exception: withTempDir removes the scratch directory
\* and the exception goes on to main.
StagingThrew(s, lv, copts, env) ==
    RemoveTempDir(Ev(WarnOfCopies(MakeTempDir(s), lv, copts, env), "exception"))

PutFile(files, path, content) == (path :> content) @@ files
DropFile(files, path) == [q \in DOMAIN files \ {path} |-> files[q]]

\* History kept with a profile archive: what it was captured from, and how.  The
\* copies not taken are those that threw and those of a system directory whose
\* listing threw.
Captured(lv, copts, env) ==
    [own |-> TRUE, live |-> lv, sel |-> copts,
     skipped |-> SkippedCopies(lv.dirs, copts, env.bad)
                   \cup { p \in (ListFailures(lv, copts, env.noList) \cap SystemLocs)
                                    \X EntryNames : lv.dirs[p[1]].ent[p[2]] # 0 }]
Foreign ==
    [own |-> FALSE, live |-> [dirs |-> [l \in Locs |-> NoDir], dconf |-> NoEntries],
     sel |-> ComponentOptionsOf(DefaultOptions), skipped |-> {}]

\* createTimestampedBackup(targetDir, prefix, options): the current settings are
\* staged in a scratch directory and zipped to <targetDir>/<prefix>-<timestamp>.zip;
\* the result is the file, or null when zip failed.
PackBackup(s1, scratch, tier, prefix, toolOk) ==
    LET file == [prefix |-> prefix, stamp |-> "iso", ts |-> s1.now, content |-> scratch]
        others(fs) == { f \in fs : ~(f.prefix = prefix /\ f.ts = s1.now) }
    IN  IF ZipDirectoryContents(scratch, toolOk)
        THEN [s |-> Ev(RemoveTempDir(
                        IF tier = "auto"
                        THEN [s1 EXCEPT !.autoBackups = others(@) \cup {file}]
                        ELSE [s1 EXCEPT !.backups = others(@) \cup {file}]),
                       "backupOk"),
              ok |-> TRUE, threw |-> FALSE]
        ELSE [s |-> Ev(RemoveTempDir(ZipFailed(s1, toolOk)), "backupFailed"),
              ok |-> FALSE, threw |-> FALSE]

CreateTimestampedBackup(s, tier, prefix, copts, env) ==
    IF ListThrows(s.live, copts, env)
    THEN [s |-> StagingThrew(Ev(s, "backupAttempt"), s.live, copts, env),
          ok |-> FALSE, threw |-> TRUE]
    ELSE PackBackup(
             WarnIfEmpty(WarnIfNoDump(WarnOfCopies(MakeTempDir(Ev(s, "backupAttempt")),
                                                   s.live, copts, env),
                                      s.live, copts, env),
                         StageCurrentSettings(s.live, copts, env)),
             StageCurrentSettings(s.live, copts, env),
             tier, prefix, env.backupZipOk)

----------------------------------------------------------------------------
(* Restoring.                                                              *)

RestoreLocAlways(lv, scratch, copts, loc, bad) ==
    [lv EXCEPT !.dirs[loc] =
         CopyDirectoryContents(loc, scratch.dirs[loc], lv.dirs[loc], bad)]

\* One block of restoreThemeDirectories/restoreIconDirectories/restoreFontDirectories:
\* if (options.X) { if (await exists(temp/X)) { mkdir(DIR); copyDirectoryContents(temp/X, DIR) } }
RestoreLoc(lv, scratch, copts, loc, bad) ==
    IF EnabledLoc(copts, loc) /\ scratch.dirs[loc].exists
    THEN [lv EXCEPT !.dirs[loc] =
              CopyDirectoryContents(loc, scratch.dirs[loc], lv.dirs[loc], bad)]
    ELSE lv

RestoreThemeDirectories(lv, scratch, copts, bad) ==
    RestoreLoc(RestoreLoc(lv, scratch, copts, "user-themes", bad),
               scratch, copts, "system-themes", bad)

RestoreIconDirectories(lv, scratch, copts, bad) ==
    RestoreLoc(RestoreLoc(RestoreLoc(lv, scratch, copts, "user-icons", bad),
                          scratch, copts, "user-icons-alt", bad),
               scratch, copts, "system-icons", bad)

RestoreFontDirectories(lv, scratch, copts, bad) ==
    RestoreLoc(RestoreLoc(RestoreLoc(lv, scratch, copts, "user-fonts", bad),
                          scratch, copts, "user-fonts-home", bad),
               scratch, copts, "system-fonts", bad)

RestoreThemeIconAndFontDirectories(lv, scratch, copts, bad) ==
    RestoreFontDirectories(
        RestoreIconDirectories(RestoreThemeDirectories(lv, scratch, copts, bad),
                               scratch, copts, bad),
        scratch, copts, bad)

WipeNothing(lv) == lv

\* emptyDir on the two core directories when they exist, then mkdir -p of both.
WipeCore(lv) ==
    [lv EXCEPT !.dirs["share"] = EmptyDir, !.dirs["config"] = EmptyDir]

\* The 'share' and 'config' subtrees of the archive are copied back when present.
RestoreCore(lv, scratch, bad) ==
    LET l1 == [lv EXCEPT !.dirs["share"] =
                   CopyDirectoryContents("share", scratch.dirs["share"], @, bad)]
    IN  [l1 EXCEPT !.dirs["config"] =
             CopyDirectoryContents("config", scratch.dirs["config"], @, bad)]

\* dconf load: the keys of the text are set, the others are left as they are.
LoadDconf(current, text) ==
    [k \in EntryNames |-> IF text[k] # 0 THEN text[k] ELSE current[k]]

LoadWithoutReset(s, scratch, copts, env) ==
    IF scratch.dconfFile.exists /\ scratch.dconfFile.text # NoEntries
    THEN IF env.dconf # "loadFail"
         THEN Ev([s EXCEPT !.live.dconf = LoadDconf(@, scratch.dconfFile.text)],
                 "dconfLoad")
         ELSE Ev(Ev(s, "dconfLoad"), "dconfLoadFailed")
    ELSE s

\* The dconf part of restoreSettingsFromZip: with the component enabled and the
\* blob present, dconf reset -f, then dconf load unless the blob is blank.
RestoreDconf(s, scratch, copts, env) ==
    IF copts.dconf /\ scratch.dconfFile.exists
    THEN LET s1 == IF env.dconf # "resetFail"
                   THEN Ev([s EXCEPT !.live.dconf = NoEntries], "dconfReset")
                   ELSE Ev(Ev(s, "dconfReset"), "dconfResetFailed")
         IN  IF scratch.dconfFile.text = NoEntries
             THEN s1
             ELSE IF env.dconf # "loadFail"
             THEN Ev([s1 EXCEPT !.live.dconf = LoadDconf(@, scratch.dconfFile.text)],
                     "dconfLoad")
             ELSE Ev(Ev(s1, "dconfLoad"), "dconfLoadFailed")
    ELSE s

\* restoreSettingsFromZip(zipFilePath, isProfileSwitch, options, skipBackup).
\* `present` and `content` are what the file system holds at zipFilePath.
RestoreWipeFirst(s, present, content, isProfileSwitch, copts, skipBackup, env) ==
    IF ~present
    THEN [s |-> Ev(s, "archiveMissing"), success |-> FALSE]
    ELSE LET s1 == Ev([MakeTempDir(s) EXCEPT !.live = WipeCore(@)], "wipe")
         IN  IF ~env.unzipOk
             THEN [s |-> RemoveTempDir(Ev(Ev(s1, "unzip"), "unzipFailed")),
                   success |-> FALSE]
             ELSE [s |-> RemoveTempDir(
                            RestoreDconf(
                                [s1 EXCEPT !.live =
                                     RestoreThemeIconAndFontDirectories(
                                         RestoreCore(@, content, env.bad),
                                         content, copts, env.bad)],
                                content, copts, env)),
                   success |-> TRUE]

UnpackWipingCaptured(s2, content, copts, env) ==
    LET s3 == Ev([s2 EXCEPT !.live.dirs =
                     [loc \in Locs |->
                        IF loc \in CoreLocs /\ content.dirs[loc].exists
                        THEN EmptyDir ELSE @[loc]]],
                 "wipe")
        s4 == Ev([s3 EXCEPT !.live = RestoreCore(@, content, env.bad)], "copyBack")
        s5 == [s4 EXCEPT !.live =
                   RestoreThemeIconAndFontDirectories(@, content, copts, env.bad)]
    IN  [s |-> RemoveTempDir(RestoreDconf(s5, content, copts, env)), success |-> TRUE]

\* The rest of the callback of restoreSettingsFromZip: the core directories are
\* emptied, the extracted content is copied back, the namespace is loaded.
UnpackSettings(s2, content, copts, env) ==
    LET s3 == Ev([s2 EXCEPT !.live = WipeCore(@)], "wipe")
        s4 == Ev([s3 EXCEPT !.live = RestoreCore(@, content, env.bad)], "copyBack")
        s5 == [s4 EXCEPT !.live =
                   RestoreThemeIconAndFontDirectories(@, content, copts, env.bad)]
        s6 == RestoreDconf(s5, content, copts, env)
        s7 == IF SkippedCopies(content.dirs, copts, env.bad) # {}
              THEN Ev(s6, "copySkipped")
              ELSE s6
    IN  [s |-> RemoveTempDir(s7), success |-> TRUE]

RestoreSettingsFromZip(s, present, content, isProfileSwitch, copts, skipBackup, env) ==
    IF ~present
    THEN [s |-> Ev(s, "archiveMissing"), success |-> FALSE]
    ELSE LET s1 == Ev(MakeTempDir(s), "unzip")
         IN  IF ~env.unzipOk
             THEN [s |-> RemoveTempDir(Ev(s1, "unzipFailed")), success |-> FALSE]
             ELSE LET s2 == IF ~isProfileSwitch /\ ~skipBackup
                            THEN CreateTimestampedBackup(
                                     s1, "auto", <<"pre-restore">>, copts, env).s
                            ELSE s1
                  IN  IF \/ ~env.emptyDirOk
                         \/ /\ ~isProfileSwitch /\ ~skipBackup
                            /\ ListThrows(s1.live, copts, env)
                      THEN [s |-> RemoveTempDir(Ev(s2, "exception")), success |-> FALSE]
                      ELSE UnpackSettings(s2, content, copts, env)

----------------------------------------------------------------------------
(* The commands.                                                           *)

NameTakenNever(profiles, name) == FALSE

\* profiles.some((p) => p.name === name)
NameTaken(profiles, name) == IndexOf(profiles, name) # 0

DeactivateNone(profiles) == profiles

\* profiles.forEach((p) => (p.active = false))
DeactivateAll(profiles) ==
    [i \in 1 .. Len(profiles) |-> [profiles[i] EXCEPT !.active = FALSE]]

\* profiles.push({ name, active: true, lastModified: new Date().toISOString(), zipFile })
PushActive(profiles, name, time, zipFile) ==
    Append(profiles, [name |-> name, active |-> TRUE, lastModified |-> time,
                      zipFile |-> zipFile])

PackRegistering(s1, scratch, name, copts, env) ==
    LET zipFile == [name |-> name, id |-> s1.nextId]
        r2 == ReadProfiles(s1, env)
        profiles == PushActive(DeactivateAll(r2.profiles), name, s1.now, zipFile)
    IN  IF ~ZipDirectoryContents(scratch, env.zipOk)
        THEN Exit(RemoveTempDir(WriteProfiles(ZipFailed(r2.s, env.zipOk), profiles)), 1)
        ELSE Exit(Ev(RemoveTempDir(WriteProfiles(
                        Ev([r2.s EXCEPT
                              !.zips = PutFile(@, zipFile, scratch),
                              !.ghost = PutFile(@, zipFile,
                                  Captured(s1.live, copts, env)),
                              !.nextId = @ + 1],
                           "zip"),
                        profiles)),
                     "created"), 0)

\* The second half of createProfile's withTempDir callback: the staged directory
\* is zipped, the registry is read again, and the new profile is pushed active.
PackProfile(s1, scratch, name, copts, env) ==
    LET zipFile == [name |-> name, id |-> s1.nextId]
    IN  IF ~ZipDirectoryContents(scratch, env.zipOk)
        THEN Exit(RemoveTempDir(ZipFailed(s1, env.zipOk)), 1)
        ELSE LET s2 == Ev([s1 EXCEPT
                             !.zips = PutFile(@, zipFile, scratch),
                             !.ghost = PutFile(@, zipFile,
                                 Captured(s1.live, copts, env)),
                             !.nextId = @ + 1],
                          "zip")
                 r2 == ReadProfiles(s2, env)
                 profiles == PushActive(DeactivateAll(r2.profiles), name,
                                        s2.now, zipFile)
             IN  Exit(Ev(RemoveTempDir(WriteProfiles(r2.s, profiles)),
                         "created"), 0)

\* createProfile(name, options)
CreateProfile(s0, name, options, env) ==
    LET r == ReadProfiles(s0, env)
    IN  IF NameTaken(r.profiles, name)
        THEN Exit(Ev(r.s, "duplicateName"), 1)
        ELSE IF ListThrows(r.s.live, ComponentOptionsOf(options), env)
        THEN Exit(StagingThrew(r.s, r.s.live, ComponentOptionsOf(options), env), 1)
        ELSE PackProfile(
                 WarnIfEmpty(WarnIfNoDump(WarnOfCopies(MakeTempDir(r.s), r.s.live,
                                                       ComponentOptionsOf(options),
                                                       env),
                                          r.s.live, ComponentOptionsOf(options), env),
                             StageCurrentSettings(r.s.live, ComponentOptionsOf(options),
                                                  env)),
                 StageCurrentSettings(r.s.live, ComponentOptionsOf(options), env),
                 name, ComponentOptionsOf(options), env)

\* `pre-switch-to-${name.replace(/[^a-zA-Z0-9-_]/g, "_")}`
SwitchPrefix(name) == <<"pre-switch-to-">> \o Sanitize(name)

ActivateKeepingOthers(profiles, name, time) ==
    [j \in 1 .. Len(profiles) |->
        IF profiles[j].name = name
        THEN [profiles[j] EXCEPT !.active = TRUE, !.lastModified = time]
        ELSE profiles[j]]

\* profiles.forEach((p) => (p.active = p.name === name));
\* profileToActivate.lastModified = new Date().toISOString()
Activate(profiles, name, time) ==
    LET i == IndexOf(profiles, name)
    IN  [j \in 1 .. Len(profiles) |->
            [profiles[j] EXCEPT
                !.active = (profiles[j].name = name),
                !.lastModified = IF j = i THEN time ELSE @]]

\* The pre-mutate backup of switchProfile: skipped with noBackup; when it fails the
\* user is asked whether to continue.  `go` says whether the switch goes on.
SwitchBackup(s, name, options, copts, env) ==
    IF options.noBackup = TRUE
    THEN [s |-> Ev(s, "backupSkipped"), go |-> TRUE, exit |-> 0]
    ELSE LET b == CreateTimestampedBackup(s, "auto", SwitchPrefix(name), copts, env)
         IN  IF b.ok
             THEN [s |-> b.s, go |-> TRUE, exit |-> 0]
             ELSE IF b.threw
             THEN [s |-> b.s, go |-> FALSE, exit |-> 1]
             ELSE IF env.confirm2
             THEN [s |-> Ev(Ev(b.s, "askContinue"), "continueYes"), go |-> TRUE,
                   exit |-> 0]
             ELSE [s |-> Ev(Ev(b.s, "askContinue"), "continueNo"), go |-> FALSE,
                   exit |-> 0]

CommitAlways(res, profiles, name) ==
    Exit(Ev(WriteProfiles(res.s, Activate(profiles, name, res.s.now)),
            IF res.success THEN "switched" ELSE "switchFailed"),
         IF res.success THEN 0 ELSE 1)

\* The end of switchProfile: the registry is rewritten only after a successful
\* restore; a failed one ends the command with status 1.
CommitSwitch(res, profiles, name) ==
    IF res.success
    THEN Exit(Ev(WriteProfiles(res.s, Activate(profiles, name, res.s.now)),
                 "switched"), 0)
    ELSE Exit(Ev(res.s, "switchFailed"), 1)

\* switchProfile(name, options)
SwitchProfile(s0, name, options, env) ==
    LET r == ReadProfiles(s0, env)
        i == IndexOf(r.profiles, name)
    IN  IF i = 0
        THEN Exit(Ev(r.s, "notFound"), 1)
        ELSE IF ~env.confirm
        THEN Exit(Ev(Ev(r.s, "confirm"), "declined"), 0)
        ELSE LET copts == ComponentOptionsOf(options)
                 b == SwitchBackup(Ev(r.s, "confirm"), name, options, copts, env)
                 zipFile == r.profiles[i].zipFile
                 present == zipFile \in DOMAIN b.s.zips
                 res == RestoreSettingsFromZip(
                            b.s, present,
                            IF present THEN b.s.zips[zipFile] ELSE EmptyScratch,
                            TRUE, copts, TRUE, env)
             IN  IF ~b.go
                 THEN Exit(b.s, b.exit)
                 ELSE CommitSwitch(res, r.profiles, name)

DeleteKeepingEntry(s0, name, env) ==
    LET r == ReadProfiles(s0, env)
        i == IndexOf(r.profiles, name)
    IN  IF i = 0
        THEN Exit(Ev(r.s, "notFound"), 1)
        ELSE IF r.profiles[i].zipFile \in DOMAIN r.s.zips /\ env.rmOk
             THEN Exit(Ev(WriteProfiles(
                             [r.s EXCEPT !.zips = DropFile(@, r.profiles[i].zipFile),
                                         !.ghost = DropFile(@, r.profiles[i].zipFile)],
                             RemoveAt(r.profiles, i)), "deleted"), 0)
             ELSE Exit(Ev(r.s, "archiveMissing"), 1)

\* deleteProfile(name): the archive is removed when it exists, then the entry.
DeleteProfile(s0, name, env) ==
    LET r == ReadProfiles(s0, env)
        i == IndexOf(r.profiles, name)
    IN  IF i = 0
        THEN Exit(Ev(r.s, "notFound"), 1)
        ELSE LET zipFile == r.profiles[i].zipFile
                 s1 == IF zipFile \in DOMAIN r.s.zips
                       THEN IF env.rmOk
                            THEN Ev([r.s EXCEPT !.zips = DropFile(@, zipFile),
                                                 !.ghost = DropFile(@, zipFile)],
                                    "archiveDeleted")
                            ELSE Ev(r.s, "archiveDeleteFailed")
                       ELSE Ev(r.s, "archiveMissing")
             IN  Exit(Ev(WriteProfiles(s1, RemoveAt(r.profiles, i)), "deleted"), 0)

\* `cinnamon-profile-${safeName}-export-${timestamp}.zip`
ExportFileName(name) == <<"cinnamon-profile-">> \o Sanitize(name) \o <<"-export-">>

ExportUnchecked(s0, name, env) ==
    LET r == ReadProfiles(s0, env)
        file == [name |-> ExportFileName(name), ts |-> r.s.now,
                 content |-> EmptyScratch]
    IN  Exit(Ev([r.s EXCEPT !.exported = @ \cup {file}], "exported"), 0)

\* exportProfile(name): the archive is extracted, the metadata file is added, and
\* the directory is zipped to the export path.
ExportProfile(s0, name, env) ==
    LET r == ReadProfiles(s0, env)
        i == IndexOf(r.profiles, name)
    IN  IF i = 0
        THEN Exit(Ev(r.s, "notFound"), 1)
        ELSE LET zipFile == r.profiles[i].zipFile
                 s1 == MakeTempDir(r.s)
                 content == [s1.zips[zipFile] EXCEPT
                               !.meta = [exists |-> TRUE, profileName |-> name]]
                 file == [name |-> ExportFileName(name), ts |-> s1.now,
                          content |-> content]
             IN  IF zipFile \notin DOMAIN s1.zips \/ ~env.unzipOk
                 THEN Exit(RemoveTempDir(Ev(s1, "unzipFailed")), 1)
                 ELSE IF ~ZipDirectoryContents(content, env.zipOk)
                 THEN Exit(RemoveTempDir(Ev(Ev(s1, "unzip"), "zipFailed")), 1)
                 ELSE Exit(Ev(RemoveTempDir(Ev(
                             [Ev(s1, "unzip") EXCEPT !.exported = @ \cup {file}],
                             "zip")), "exported"), 0)

\* `pre-update-${activeProfile.name.replace(/[^a-zA-Z0-9-_]/g, "_")}`
UpdatePrefix(name) == <<"pre-update-">> \o Sanitize(name)

\* profiles.find((p) => p.active): the index of the first active profile, or 0.
FindActive(profiles) ==
    IF \E i \in 1 .. Len(profiles) : profiles[i].active
    THEN CHOOSE i \in 1 .. Len(profiles) :
             /\ profiles[i].active
             /\ \A j \in 1 .. i - 1 : ~profiles[j].active
    ELSE 0

\* The end of updateActiveProfile's withTempDir callback: the staged directory is
\* zipped to the profile's path and the profile's lastModified is set.
PackUpdateBumpingAll(s3, scratch, profiles, i, copts, env) ==
    IF ~ZipDirectoryContents(scratch, env.zipOk)
    THEN Exit(Ev(RemoveTempDir(ZipFailed(s3, env.zipOk)), "updateFailed"), 1)
    ELSE Exit(Ev(RemoveTempDir(WriteProfiles(
                    Ev([s3 EXCEPT
                          !.zips = PutFile(@, profiles[i].zipFile, scratch),
                          !.ghost = PutFile(@, profiles[i].zipFile,
                              Captured(s3.live, copts, env))],
                       "zip"),
                    [j \in 1 .. Len(profiles) |->
                        [profiles[j] EXCEPT !.lastModified = s3.now]])),
                "updated"), 0)

PackUpdate(s3, scratch, profiles, i, copts, env) ==
    IF ~ZipDirectoryContents(scratch, env.zipOk)
    THEN Exit(Ev(RemoveTempDir(ZipFailed(s3, env.zipOk)), "updateFailed"), 1)
    ELSE Exit(Ev(RemoveTempDir(WriteProfiles(
                    Ev([s3 EXCEPT
                          !.zips = PutFile(@, profiles[i].zipFile, scratch),
                          !.ghost = PutFile(@, profiles[i].zipFile,
                              Captured(s3.live, copts, env))],
                       "zip"),
                    [profiles EXCEPT ![i].lastModified = s3.now])),
                "updated"), 0)

\* updateActiveProfile(options)
UpdateActiveProfile(s0, options, env) ==
    LET r == ReadProfiles(s0, env)
        i == FindActive(r.profiles)
    IN  IF i = 0
        THEN Exit(Ev(r.s, "noActive"), 1)
        ELSE IF ~env.confirm
        THEN Exit(Ev(Ev(r.s, "confirm"), "declined"), 0)
        ELSE LET copts == ComponentOptionsOf(options)
                 active == r.profiles[i]
                 b == CreateTimestampedBackup(Ev(r.s, "confirm"), "auto",
                                              UpdatePrefix(active.name), copts, env)
                 s1 == IF b.ok THEN b.s
                       ELSE Ev(Ev(b.s, "askContinue"),
                               IF env.confirm2 THEN "continueYes" ELSE "continueNo")
                 s2 == MakeTempDir(s1)
                 s2a == IF active.zipFile \in DOMAIN s2.zips
                        THEN Ev([s2 EXCEPT !.zips = DropFile(@, active.zipFile),
                                             !.ghost = DropFile(@, active.zipFile)],
                                "archiveDeleted")
                        ELSE s2
             IN  IF b.threw
                 THEN Exit(b.s, 1)
                 ELSE IF ~b.ok /\ ~env.confirm2
                 THEN Exit(s1, 0)
                 ELSE PackUpdate(
                          WarnIfEmpty(WarnIfNoDump(WarnOfCopies(s2a, s0.live, copts,
                                                                env),
                                                   s0.live, copts, env),
                                      StageCurrentSettings(s0.live, copts, env)),
                          StageCurrentSettings(s0.live, copts, env),
                          r.profiles, i, copts, env)

BackupDeactivating(s0, options, env) ==
    LET b == CreateTimestampedBackup(s0, "manual", <<"manual-backup">>,
                                     ComponentOptionsOf(options), env)
    IN  Exit([b.s EXCEPT !.db.profiles = DeactivateAll(@)], IF b.ok THEN 0 ELSE 1)

\* backupCurrentSettingsCmd(options)
BackupCurrentSettingsCmd(s0, options, env) ==
    LET b == CreateTimestampedBackup(s0, "manual", <<"manual-backup">>,
                                     ComponentOptionsOf(options), env)
    IN  Exit(b.s, IF b.ok THEN 0 ELSE 1)

\* selectBackupFile(): the .zip files of both tiers, newest timestamp first.
AllBackups(s) ==
    { [tier |-> "manual", file |-> f] : f \in s.backups }
        \cup { [tier |-> "auto", file |-> f] : f \in s.autoBackups }

\* The date read from a file name: the name must end with
\* <yyyy-mm-ddThh-mm-ss-mmmZ>.zip ("iso" and "bad" stamps do, "none" does not) and
\* new Date() of that text must not be NaN ("bad": a field out of range, such as
\* month 13).  The names the program writes carry the instant of their creation.
HasDate(f) == f.stamp = "iso"

Letters ==
    <<"a", "b", "c", "d", "e", "f", "g", "h", "i", "j", "k", "l", "m",
      "n", "o", "p", "q", "r", "s", "t", "u", "v", "w", "x", "y", "z">>

\* a.filename.localeCompare(b.filename), for names that differ in their first
\* letter (lower case).
LocaleCompare(a, b) ==
    LET rank(c) == CHOOSE k \in 1 .. Len(Letters) : Letters[k] = c
    IN  rank(a.prefix[1]) - rank(b.prefix[1])

CompareOldestFirst(a, b) ==
    IF ~HasDate(a) /\ ~HasDate(b) THEN LocaleCompare(a, b)
    ELSE IF ~HasDate(a) THEN 1
    ELSE IF ~HasDate(b) THEN 0 - 1
    ELSE a.ts - b.ts

\* The comparator of filesWithDates.sort: undated entries after dated ones and
\* among themselves by name, dated entries newest first.
CompareBackups(a, b) ==
    IF ~HasDate(a) /\ ~HasDate(b) THEN LocaleCompare(a, b)
    ELSE IF ~HasDate(a) THEN 1
    ELSE IF ~HasDate(b) THEN 0 - 1
    ELSE b.ts - a.ts

\* Array.prototype.sort is stable: entries the comparator holds equal stay in
\* the order they were gathered in, the manual tier before the automatic one.
RECURSIVE SortFiles(_)
SortFiles(all) ==
    IF all = {} THEN <<>>
    ELSE LET gathered(x) == IF x.tier = "manual" THEN 1 ELSE 2
             first == CHOOSE x \in all : \A y \in all \ {x} :
                         \/ CompareBackups(x.file, y.file) < 0
                         \/ /\ CompareBackups(x.file, y.file) = 0
                            /\ gathered(x) <= gathered(y)
         IN  <<first>> \o SortFiles(all \ {first})

SortedBackups(s) == SortFiles(AllBackups(s))

ListClearingAuto(s) ==
    IF AllBackups(s) = {}
    THEN Exit(Ev(s, "noBackups"), 0)
    ELSE Exit(Ev([s EXCEPT !.shown = SortedBackups(s), !.autoBackups = {}], "listed"), 0)

\* listBackups(): the table of the backups of both tiers.
ListBackups(s) ==
    IF AllBackups(s) = {}
    THEN Exit(Ev(s, "noBackups"), 0)
    ELSE Exit(Ev([s EXCEPT !.shown = SortedBackups(s)], "listed"), 0)

\* parseInt(input): leading blanks are skipped, a sign is read, then the longest
\* run of decimal digits; what follows the digits is ignored; NaN when there is no
\* digit.  (The texts considered have no 0x prefix.)
Digits == {"0", "1", "2", "3", "4", "5", "6", "7", "8", "9"}

DigitValue(c) ==
    CASE c = "0" -> 0 [] c = "1" -> 1 [] c = "2" -> 2 [] c = "3" -> 3 [] c = "4" -> 4
      [] c = "5" -> 5 [] c = "6" -> 6 [] c = "7" -> 7 [] c = "8" -> 8 [] c = "9" -> 9

RECURSIVE SkipBlanks(_)
SkipBlanks(text) ==
    IF text # <<>> /\ Head(text) = " " THEN SkipBlanks(Tail(text)) ELSE text

RECURSIVE ReadDigits(_, _)
ReadDigits(text, acc) ==
    IF text # <<>> /\ Head(text) \in Digits
    THEN ReadDigits(Tail(text), 10 * acc + DigitValue(Head(text)))
    ELSE acc

ParseInt(input) ==
    LET text == SkipBlanks(input)
        signed == text # <<>> /\ Head(text) \in {"+", "-"}
        rest == IF signed THEN Tail(text) ELSE text
    IN  IF rest = <<>> \/ Head(rest) \notin Digits
        THEN [nan |-> TRUE, value |-> 0]
        ELSE [nan |-> FALSE,
              value |-> IF signed /\ Head(text) = "-"
                        THEN 0 - ReadDigits(rest, 0)
                        ELSE ReadDigits(rest, 0)]

AskSelection(s, list, input, selection) ==
    LET none == [tier |-> "none"]
    IN  IF input = <<>>
        THEN [s |-> Ev(s, "cancelled"), found |-> FALSE, file |-> none]
        ELSE IF selection.nan \/ selection.value < 0 \/ selection.value > Len(list)
        THEN [s |-> Ev(s, "invalidSelection"), found |-> FALSE, file |-> none]
        ELSE IF selection.value = 0
        THEN [s |-> Ev(s, "cancelled"), found |-> FALSE, file |-> none]
        ELSE [s |-> [Ev(s, "selected") EXCEPT !.picked = <<list[selection.value]>>],
              found |-> TRUE, file |-> list[selection.value]]

\* The end of selectBackupFile: the list is shown and the user is asked once for
\* "the number of the backup to restore (or 0 to cancel)".  prompt() gives null for
\* an empty line; the text is read with parseInt; NaN or a number outside 0..n is
\* an invalid selection, 0 cancels, k selects the k-th entry.
SelectBackupFile(s, input) ==
    LET list == SortedBackups(s)
    IN  IF Len(list) = 0
        THEN [s |-> Ev(s, "noBackups"), found |-> FALSE, file |-> [tier |-> "none"]]
        ELSE AskSelection([Ev(s, "prompt") EXCEPT !.shown = list], list, input,
                          ParseInt(input))

\* restoreBackupCmd(options)
RestoreBackupCmd(s0, options, input, env) ==
    LET sel == SelectBackupFile(s0, input)
    IN  IF ~sel.found
        THEN Exit(sel.s, 0)
        ELSE LET res == RestoreSettingsFromZip(
                            sel.s, TRUE, sel.file.file.content, FALSE,
                            ComponentOptionsOf(options), options.noBackup = TRUE, env)
             IN  IF res.success
                 THEN Exit(Ev(res.s, "restored"), 0)
                 ELSE Exit(Ev(res.s, "restoreFailed"), 1)

\* The profile name importProfile derives: the file's base name without the
\* cinnamon-profile- prefix and the -export-<timestamp> suffix, sanitised; the
\* metadata's profileName, sanitised, when there is one; what the user types at the
\* prompt, sanitised, when it is not blank; a generated name when all that is empty.
ImportName(s, file, typed) ==
    LET fromFile == IF Sanitize(file.stem) # <<>> THEN Sanitize(file.stem)
                    ELSE <<"imported-", ToString(s.now)>>
        fromMeta == IF file.content.meta.exists /\ file.content.meta.profileName # <<>>
                    THEN Sanitize(file.content.meta.profileName)
                    ELSE fromFile
        fromUser == IF typed # <<>> THEN Sanitize(typed) ELSE fromMeta
    IN  IF fromUser # <<>> THEN fromUser
        ELSE <<"imported-profile-", ToString(s.now)>>

\* importProfile(filepath).  Deno.exit inside withTempDir ends the process before
\* the finally block that removes the scratch directory.
ImportProfile(s0, file, typed, env) ==
    IF ~file.present
    THEN Exit(Ev(s0, "notFound"), 1)
    ELSE LET s1 == Ev(MakeTempDir(s0), "unzip")
             profileName == ImportName(s1, file, typed)
             r == ReadProfiles(s1, env)
             i == IndexOf(r.profiles, profileName)
             old == r.profiles[i].zipFile
             s2 == IF i # 0 /\ old \in DOMAIN r.s.zips
                   THEN Ev([r.s EXCEPT !.zips = DropFile(@, old),
                                        !.ghost = DropFile(@, old)],
                           "archiveDeleted")
                   ELSE r.s
             kept == IF i # 0 THEN RemoveAt(r.profiles, i) ELSE r.profiles
             newZipFile == [name |-> profileName, id |-> s2.nextId]
             s3 == Ev([s2 EXCEPT !.zips = PutFile(@, newZipFile, file.content),
                                 !.ghost = PutFile(@, newZipFile, Foreign),
                                 !.nextId = @ + 1],
                      "zip")
             profiles == Append(kept, [name |-> profileName, active |-> FALSE,
                                       lastModified |-> s3.now,
                                       zipFile |-> newZipFile])
         IN  IF ~env.unzipOk
             THEN Exit(Ev(s1, "unzipFailed"), 1)
             ELSE IF i # 0 /\ ~env.confirm
             THEN Exit(Ev(Ev(r.s, "confirm"), "declined"), 0)
             ELSE IF ~ZipDirectoryContents(file.content, env.zipOk)
             THEN Exit(Ev(WarnIfEmpty(s2, file.content), "zipFailed"), 1)
             ELSE Exit(Ev(RemoveTempDir(WriteProfiles(s3, profiles)), "imported"), 0)

ResetAfterOneConfirm(s0, env, partial) ==
    IF ~env.confirm
    THEN Exit(Ev(Ev(s0, "confirm"), "declined"), 0)
    ELSE Exit(Ev(Ev(Ev([s0 EXCEPT !.db = [EmptyDb EXCEPT !.exists = FALSE],
                                   !.quarantine = {}, !.zips = <<>>, !.ghost = <<>>,
                                   !.backups = {}, !.autoBackups = {}],
                       "confirm"), "removeRoot"), "resetDone"), 0)

\* resetApplication(): two confirmations, then Deno.remove of the profiles root
\* with everything in it (profiles.json and its quarantined copies, the profile
\* archives, both backup tiers).  A remove that throws has deleted nothing, or
\* (partial) the archives it came to before the error.
ResetApplication(s0, env, partial) ==
    IF ~env.confirm
    THEN Exit(Ev(Ev(s0, "confirm"), "declined"), 0)
    ELSE IF ~env.confirm2
    THEN Exit(Ev(Ev(Ev(s0, "confirm"), "confirm2"), "declined"), 0)
    ELSE LET s1 == Ev(Ev(Ev(s0, "confirm"), "confirm2"), "removeRoot")
         IN  IF env.rmOk
             THEN Exit(Ev([s1 EXCEPT !.db = [EmptyDb EXCEPT !.exists = FALSE],
                                     !.quarantine = {}, !.zips = <<>>, !.ghost = <<>>,
                                     !.backups = {}, !.autoBackups = {}],
                          "resetDone"), 0)
             ELSE Exit(Ev(IF partial
                          THEN [s1 EXCEPT !.zips = <<>>, !.ghost = <<>>]
                          ELSE s1,
                          "resetFailed"), 1)

----------------------------------------------------------------------------
(* Changes made by the environment.                                        *)

\* A change of the live configuration: a file written or removed, a directory
\* removed, a dconf key set or unset.
SetEntry(loc, e, v) == [kind |-> "set", loc |-> loc, e |-> e, v |-> v]
RemoveDir(loc) == [kind |-> "rmdir", loc |-> loc, e |-> "a", v |-> 0]
SetKey(e, v) == [kind |-> "dconf", loc |-> "share", e |-> e, v |-> v]

AllEdits ==
    { SetEntry(l, e, v) : l \in Locs, e \in EntryNames, v \in Ver }
        \cup { RemoveDir(l) : l \in Locs }
        \cup { SetKey(e, v) : e \in EntryNames, v \in Ver }

ApplyEdit(lv, ed) ==
    CASE ed.kind = "set" ->
            [lv EXCEPT !.dirs[ed.loc] =
                 DirOf([lv.dirs[ed.loc].ent EXCEPT ![ed.e] = ed.v])]
      [] ed.kind = "rmdir" -> [lv EXCEPT !.dirs[ed.loc] = NoDir]
      [] OTHER -> [lv EXCEPT !.dconf[ed.e] = ed.v]

\* Files offered to import: an export made by this tool (with its metadata
\* document), a plain archive, and a path that does not exist.
ImportFiles ==
    { [present |-> TRUE, stem |-> <<"a", "_", "b">>,
       content |-> [EmptyScratch EXCEPT
                      !.dirs["share"] = DirOf([NoEntries EXCEPT !["a"] = 2]),
                      !.meta = [exists |-> TRUE, profileName |-> <<"a", " ", "b">>]]],
      [present |-> TRUE, stem |-> <<"h">>,
       content |-> [EmptyScratch EXCEPT
                      !.dirs["config"] = DirOf([NoEntries EXCEPT !["b"] = 2])]],
      [present |-> FALSE, stem |-> <<"w">>, content |-> EmptyScratch] }

\* What the user types at import's name prompt (<<>>: nothing).
TypedNames == { <<>>, <<"w">> }

----------------------------------------------------------------------------
(* Initial state and actions.                                              *)

InitLive ==
    [dirs |-> [l \in Locs |->
                 CASE l \in {"share", "system-themes"} ->
                          DirOf([e \in EntryNames |-> 1])
                   [] l \in {"config", "user-themes", "system-icons", "system-fonts"} ->
                          DirOf([NoEntries EXCEPT !["a"] = 1])
                   [] l = "user-fonts" -> DirOf([NoEntries EXCEPT !["b"] = 1])
                   [] l = "user-icons-alt" -> EmptyDir
                   [] OTHER -> NoDir],
     dconf |-> [NoEntries EXCEPT !["a"] = 1]]

NoCommand(cmd) ==
    [cmd |-> cmd, name |-> <<>>, options |-> DefaultOptions, input |-> <<>>, picked |-> <<>>,
     shown |-> <<>>,
     exit |-> 0, trace |-> <<>>]

Init ==
    /\ db = EmptyDb
    /\ quarantine = {}
    /\ zips = <<>>
    /\ ghost = <<>>
    /\ backups = {}
    /\ autoBackups = {}
    /\ exported = {}
    /\ live = InitLive
    /\ temps = 0
    /\ now = 0
    /\ nextId = 1
    /\ nEdits = 0
    /\ running = <<>>
    /\ last = NoCommand("init")

\* main(): every invocation starts with ensureAppDirectories(), at a later instant.
Begin == EnsureAppDirectories([State EXCEPT !.now = @ + 1])

\* The state the invocation leaves.
Finish(cmd, name, options, input, r) ==
    /\ db' = r.db
    /\ quarantine' = r.quarantine
    /\ zips' = r.zips
    /\ ghost' = r.ghost
    /\ backups' = r.backups
    /\ autoBackups' = r.autoBackups
    /\ exported' = r.exported
    /\ live' = r.live
    /\ temps' = r.temps
    /\ now' = r.now
    /\ nextId' = r.nextId
    /\ nEdits' = nEdits
    /\ running' = running
    /\ last' = [cmd |-> cmd, name |-> name, options |-> options, input |-> input,
                exit |-> r.exit, trace |-> r.trace, picked |-> r.picked,
                shown |-> r.shown]

\* Deno.copyFile of a corrupted registry matters only when the registry is corrupted.
QCopies == IF Corrupt(db) THEN BOOLEAN ELSE {TRUE}

Registered(name) == db.exists /\ db.kind = "array" /\ IndexOf(db.profiles, name) # 0

\* create <name> [options]
\* Captures that meet a directory Deno.readDir cannot list: a core directory,
\* or a system directory.
ListEnvs ==
    { CannotList(e, locs) :
        e \in Envs({TRUE}, {TRUE}, {TRUE}, {TRUE}, {TRUE}, {"ok"}, {{}}, {TRUE}),
        locs \in { {"share"}, {"system-themes"} } }

Create(names, optionSets, bads) ==
    /\ now < MaxCmds
    /\ \E name \in names, options \in optionSets :
       \E env \in Envs({TRUE}, {TRUE}, {TRUE}, BOOLEAN, {TRUE}, {"ok", "dumpFail"},
                       bads, QCopies)
                  \cup ListEnvs :
          Finish("create", name, options, <<>>, CreateProfile(Begin, name, options, env))

\* The outcomes a switch to a registered profile can meet: the user declines; the
\* backup fails and the user declines or accepts to go on; unzip fails; the restore
\* runs with the given dconf outcomes and failing copies.
SwitchEnvs(dconfs, bads) ==
    Envs({FALSE}, {TRUE}, {TRUE}, {TRUE}, {TRUE}, {"ok"}, {{}}, {TRUE})
        \cup Envs({TRUE}, BOOLEAN, {FALSE}, {TRUE}, {TRUE}, {"ok"}, {{}}, {TRUE})
        \cup Envs({TRUE}, {TRUE}, BOOLEAN, {TRUE}, {FALSE}, {"ok"}, {{}}, {TRUE})
        \cup Envs({TRUE}, {TRUE}, {TRUE}, {TRUE}, {TRUE}, dconfs, bads, {TRUE})
        \cup { EmptyDirFails(e) :
                  e \in Envs({TRUE}, {TRUE}, {TRUE}, {TRUE}, {TRUE}, {"ok"}, {{}},
                             {TRUE}) }

\* switch <name> [options]
Switch(names, optionSets, envs) ==
    /\ now < MaxCmds
    /\ \E name \in names, options \in optionSets :
       \E env \in
            IF ~Registered(name)
            THEN Envs({TRUE}, {TRUE}, {TRUE}, {TRUE}, {TRUE}, {"ok"}, {{}}, QCopies)
            ELSE envs :
          Finish("switch", name, options, <<>>, SwitchProfile(Begin, name, options, env))

\* Inputs of the registry specification.
SpecOptions == { DefaultOptions }
SpecBads == { {}, {<<"share", "b">>} }

CreateCmd == Create(Names, SpecOptions, SpecBads)

SwitchCmd ==
    Switch(Names, SpecOptions \cup { NoBackup(DefaultOptions) },
           SwitchEnvs(DconfOutcomes, {{}}) \cup SwitchEnvs({"ok"}, SpecBads))

UpdateCmd ==
    /\ now < MaxCmds
    /\ \E options \in SpecOptions :
       \E env \in
            Envs({FALSE}, {TRUE}, {TRUE}, {TRUE}, {TRUE}, {"ok"}, {{}}, QCopies)
            \cup Envs({TRUE}, {TRUE}, {TRUE}, BOOLEAN, {TRUE}, {"ok", "dumpFail"},
                      {{}}, QCopies)
            \cup Envs({TRUE}, BOOLEAN, {FALSE}, {TRUE}, {TRUE}, {"ok"}, {{}}, QCopies) :
          Finish("update", <<>>, options, <<>>, UpdateActiveProfile(Begin, options, env))

DeleteCmd ==
    /\ now < MaxCmds
    /\ \E name \in Names :
       \E e \in Envs({TRUE}, {TRUE}, {TRUE}, {TRUE}, {TRUE}, {"ok"}, {{}}, QCopies) :
       \E env \in {e} \cup (IF Registered(name) THEN {RemoveFails(e)} ELSE {}) :
          Finish("delete", name, DefaultOptions, <<>>, DeleteProfile(Begin, name, env))

ExportCmd ==
    /\ now < MaxCmds
    /\ \E name \in Names :
       \E env \in Envs({TRUE}, {TRUE}, {TRUE}, {TRUE}, {TRUE}, {"ok"}, {{}}, QCopies)
                 \cup (IF Registered(name)
                       THEN Envs({TRUE}, {TRUE}, {TRUE}, {FALSE}, {TRUE}, {"ok"}, {{}},
                                 {TRUE})
                            \cup Envs({TRUE}, {TRUE}, {TRUE}, {TRUE}, {FALSE}, {"ok"},
                                      {{}}, {TRUE})
                       ELSE {}) :
          Finish("export", name, DefaultOptions, <<>>, ExportProfile(Begin, name, env))

ImportCmd ==
    /\ now < MaxCmds
    /\ \E file \in ImportFiles, typed \in TypedNames :
       \E env \in
            Envs({TRUE}, {TRUE}, {TRUE}, {TRUE}, {FALSE}, {"ok"}, {{}}, {TRUE})
            \cup Envs(BOOLEAN, {TRUE}, {TRUE}, {TRUE}, {TRUE}, {"ok"}, {{}}, QCopies)
            \cup Envs({TRUE}, {TRUE}, {TRUE}, {FALSE}, {TRUE}, {"ok"}, {{}}, QCopies) :
          Finish("import", typed, DefaultOptions, IF file.present THEN <<"present">> ELSE <<"missing">>,
                 ImportProfile(Begin, file, typed, env))

\* What the user types at the selection prompt (<<>>: an empty line).
InputTexts ==
    { <<>>, <<"0">>, <<"1">>, <<"2">>, <<"3">>, <<"-", "1">>, <<"x">>,
      <<"1", "x">>, <<" ", "2">> }

Restore(optionSets, inputs) ==
    /\ now < MaxCmds
    /\ \E input \in inputs :
       \E options \in IF SelectBackupFile(State, input).found
                      THEN optionSets
                      ELSE SpecOptions :
       \E env \in
            Envs({TRUE}, {TRUE}, {TRUE}, {TRUE}, {TRUE}, {"ok"}, {{}}, {TRUE})
            \cup (IF SelectBackupFile(State, input).found
                  THEN Envs({TRUE}, {TRUE}, {TRUE}, {TRUE}, {FALSE}, {"ok"}, {{}}, {TRUE})
                       \cup Envs({TRUE}, {TRUE}, {FALSE}, {TRUE}, {TRUE}, {"ok"}, {{}},
                                 {TRUE})
                       \cup Envs({TRUE}, {TRUE}, {TRUE}, {TRUE}, {TRUE}, DconfOutcomes,
                                 {{}}, {TRUE})
                       \cup { EmptyDirFails(e) :
                                 e \in Envs({TRUE}, {TRUE}, {TRUE}, {TRUE}, {TRUE},
                                            {"ok"}, {{}}, {TRUE}) }
                  ELSE {}) :
          Finish("restore", <<>>, options, input,
                 RestoreBackupCmd(Begin, options, input, env))

RestoreCmd == Restore(SpecOptions \cup { NoBackup(DefaultOptions) }, InputTexts)

Backup(optionSets) ==
    /\ now < MaxCmds
    /\ \E options \in optionSets :
       \E env \in Envs({TRUE}, {TRUE}, BOOLEAN, {TRUE}, {TRUE}, {"ok", "dumpFail"},
                       {{}}, {TRUE})
                  \cup ListEnvs :
          Finish("backup", <<>>, options, <<>>,
                 BackupCurrentSettingsCmd(Begin, options, env))

BackupCmd == Backup(SpecOptions)

\* The user, or another program, changes the live configuration.
SomeEdits ==
    { SetEntry("share", "a", 2), SetEntry("user-themes", "b", 2), SetKey("b", 2) }

Change(edits) ==
    /\ nEdits < MaxEdits
    /\ \E ed \in edits : live' = ApplyEdit(live, ed)
    /\ live' # live
    /\ nEdits' = nEdits + 1
    /\ running' = running
    /\ last' = NoCommand("edit")
    /\ UNCHANGED <<db, quarantine, zips, ghost, backups, autoBackups, exported, temps, now,
                   nextId>>

\* profiles.json is damaged from outside: it no longer parses, or parses to
\* something that is not an array.
LiveChange == Change(SomeEdits)

CorruptRegistry ==
    /\ nEdits < MaxEdits
    /\ now < MaxCmds
    /\ db.exists /\ db.kind = "array"
    /\ \E kind \in {"notjson", "notarray"} :
          db' = [exists |-> TRUE, kind |-> kind, profiles |-> <<>>, raw |-> now + 1]
    /\ nEdits' = nEdits + 1
    /\ running' = running
    /\ last' = NoCommand("corrupt")
    /\ UNCHANGED <<quarantine, zips, ghost, backups, autoBackups, exported, live, temps, now,
                   nextId>>

\* The archive of a registered profile is removed from disk by hand.
RemoveArchive ==
    /\ nEdits < MaxEdits
    /\ now < MaxCmds
    /\ db.kind = "array"
    /\ \E i \in 1 .. Len(db.profiles) :
          /\ db.profiles[i].zipFile \in DOMAIN zips
          /\ zips' = DropFile(zips, db.profiles[i].zipFile)
          /\ ghost' = DropFile(ghost, db.profiles[i].zipFile)
    /\ nEdits' = nEdits + 1
    /\ running' = running
    /\ last' = NoCommand("rmArchive")
    /\ UNCHANGED <<db, quarantine, backups, autoBackups, exported, live, temps, now, nextId>>

ListBackupsCmd ==
    /\ now < MaxCmds
    /\ Finish("list-backups", <<>>, DefaultOptions, <<>>, ListBackups(Begin))

Next ==
    \/ CreateCmd
    \/ SwitchCmd
    \/ UpdateCmd
    \/ DeleteCmd
    \/ ExportCmd
    \/ ImportCmd
    \/ RestoreCmd
    \/ BackupCmd
    \/ ListBackupsCmd
    \/ LiveChange
    \/ CorruptRegistry
    \/ RemoveArchive

Spec == Init /\ [][Next]_vars

\* reset
ResetCmd ==
    /\ now < MaxCmds
    /\ \E e \in Envs(BOOLEAN, BOOLEAN, {TRUE}, {TRUE}, {TRUE}, {"ok"}, {{}}, {TRUE}),
          partial \in BOOLEAN :
       \E env \in {e} \cup (IF e.confirm /\ e.confirm2 THEN {RemoveFails(e)} ELSE {}) :
          Finish("reset", <<>>, DefaultOptions, <<>>,
                 ResetApplication(Begin, env, partial))

\* The registry specification with the reset command.
NextReset == Next \/ ResetCmd

SpecReset == Init /\ [][NextReset]_vars

----------------------------------------------------------------------------
(* The capture/apply specification: one profile is created from the live   *)
(* configuration with any of the selections, the live configuration is     *)
(* changed in any way, and the profile is switched to, with any selection. *)

Selections == { DefaultOptions, AllOptions, FilesOnlyOptions, MixedOptions }

RTCreate ==
    /\ db.profiles = <<>>
    /\ Create({<<"w">>}, Selections, BadSets)

RTChange == Change(AllEdits)

RTSwitch ==
    /\ last.cmd # "switch"
    /\ Registered(<<"w">>)
    /\ Switch({<<"w">>}, { NoBackup(o) : o \in Selections },
              SwitchEnvs(DconfOutcomes, BadSets))

NextRT == RTCreate \/ RTChange \/ RTSwitch

SpecRT == Init /\ [][NextRT]_vars

----------------------------------------------------------------------------
(* The capture specification: create and backup run on machines whose live *)
(* locations are present or absent in any combination, down to none.       *)

CaptureLives ==
    { [dirs |-> [l \in Locs |->
                   IF l = "share" THEN share
                   ELSE IF l = "config" THEN config
                   ELSE IF themes THEN InitLive.dirs[l] ELSE NoDir],
       dconf |-> dconf] :
          share \in {NoDir, EmptyDir, InitLive.dirs["share"]},
          config \in {NoDir, InitLive.dirs["config"]},
          themes \in BOOLEAN,
          dconf \in {NoEntries, InitLive.dconf} }

InitCap ==
    /\ db = EmptyDb
    /\ quarantine = {}
    /\ zips = <<>>
    /\ ghost = <<>>
    /\ backups = {}
    /\ autoBackups = {}
    /\ exported = {}
    /\ live \in CaptureLives
    /\ temps = 0
    /\ now = 0
    /\ nextId = 1
    /\ nEdits = 0
    /\ running = <<>>
    /\ last = NoCommand("init")

CapOptions == { DefaultOptions, FilesOnlyOptions, AllOptions }

CapCreate == Create(Names, CapOptions, SpecBads)

CapBackup == Backup(CapOptions)

NextCap == CapCreate \/ CapBackup

SpecCap == InitCap /\ [][NextCap]_vars

----------------------------------------------------------------------------
(* The listing specification: backups are made, .zip files are put into the  *)
(* tiers by hand, and the backups are listed or offered for restoring.       *)

\* Files a user may copy into a tier: one without a timestamp in its name, one
\* whose timestamp is no date, one with the timestamp of an earlier instant.  The
\* second holds a dconf dump that is blank, the others hold none.
ForeignFiles ==
    LET content == [EmptyScratch EXCEPT
                      !.dirs["share"] = DirOf([NoEntries EXCEPT !["a"] = 2])]
        blank == [content EXCEPT !.dconfFile = [exists |-> TRUE, text |-> NoEntries]]
    IN  { [prefix |-> <<"m">>, stamp |-> "none", ts |-> 0, content |-> content],
          [prefix |-> <<"k">>, stamp |-> "bad", ts |-> 0, content |-> blank],
          [prefix |-> <<"z">>, stamp |-> "iso", ts |-> 0, content |-> content] }

DropBackupFiles ==
    /\ nEdits < MaxEdits
    /\ now < MaxCmds
    /\ \E manual \in SUBSET ForeignFiles, auto \in SUBSET ForeignFiles :
          /\ manual \cup auto # {}
          /\ manual \cap auto = {}
          /\ backups' = backups \cup manual
          /\ autoBackups' = autoBackups \cup auto
    /\ nEdits' = nEdits + 1
    /\ running' = running
    /\ last' = NoCommand("dropFiles")
    /\ UNCHANGED <<db, quarantine, zips, ghost, exported, live, temps, now, nextId>>

ListRestore ==
    Restore({ DefaultOptions, NoBackup(DefaultOptions), NoBackup(FilesOnlyOptions) },
            { <<>>, <<"1">>, <<"2">>, <<"x">> })

NextList == BackupCmd \/ ListRestore \/ ListBackupsCmd \/ DropBackupFiles

SpecList == Init /\ [][NextList]_vars

----------------------------------------------------------------------------
(* The names of backup files: the instant is written into the name when the  *)
(* backup is made and read back from it when the backups are listed.         *)

\* Instants are counted in milliseconds from 2025-12-31T23:59:58.000Z, so that
\* the window holds a change of every field of the date.
StampInstants == {0, 1, 999, 1000, 1058, 1999, 2000, 2001, 2999, 3000}
StampGaps == {1, 1000, 1500}

\* The prefixes createTimestampedBackup is called with.
StampPrefixes ==
    { <<"manual-backup">>, <<"pre-restore">>, SwitchPrefix(<<"w">>),
      SwitchPrefix(<<"a", " ", "b">>),
      UpdatePrefix(<<"2", "0", "2", "5", "-", "1", "2", "-", "3", "1", "T", "2", "3",
                     "-", "5", "9", "-", "5", "8", "-", "0", "0", "0", "Z">>) }

\* A prefix character by character.
RECURSIVE Spell(_)
Spell(prefix) ==
    LET tok == Head(prefix)
    IN  IF prefix = <<>> THEN <<>>
        ELSE (CASE tok = "manual-backup" ->
               <<"m", "a", "n", "u", "a", "l", "-", "b", "a", "c", "k", "u", "p">>
          [] tok = "pre-restore" ->
               <<"p", "r", "e", "-", "r", "e", "s", "t", "o", "r", "e">>
          [] tok = "pre-switch-to-" ->
               <<"p", "r", "e", "-", "s", "w", "i", "t", "c", "h", "-", "t", "o", "-">>
          [] tok = "pre-update-" ->
               <<"p", "r", "e", "-", "u", "p", "d", "a", "t", "e", "-">>
                [] OTHER -> <<tok>>) \o Spell(Tail(prefix))

\* new Date().toISOString(): yyyy-mm-ddThh:mm:ss.mmmZ in UTC.
ToISOString(time) ==
    LET total == 58000 + time
        next == total >= 60000
        pad(n, w) == [i \in 1 .. w |->
                        CHOOSE c \in Digits : DigitValue(c) = (n \div 10 ^ (w - i)) % 10]
    IN  pad(IF next THEN 2026 ELSE 2025, 4) \o <<"-">>
            \o pad(IF next THEN 1 ELSE 12, 2) \o <<"-">>
            \o pad(IF next THEN 1 ELSE 31, 2) \o <<"T">>
            \o pad(IF next THEN 0 ELSE 23, 2) \o <<":">>
            \o pad(IF next THEN 0 ELSE 59, 2) \o <<":">>
            \o pad((total % 60000) \div 1000, 2) \o <<".">>
            \o pad(total % 1000, 3) \o <<"Z">>

\* .replace(/[:.]/g, "-")
StampOf(iso) ==
    [i \in 1 .. Len(iso) |-> IF iso[i] \in {":", "."} THEN "-" ELSE iso[i]]

\* `${prefix}-${timestamp}.zip`
BackupFileName(prefix, time) ==
    Spell(prefix) \o <<"-">> \o StampOf(ToISOString(time)) \o <<".", "z", "i", "p">>

\* name.match(/(\d{4}-\d{2}-\d{2}T\d{2}-\d{2}-\d{2}-\d{3}Z)\.zip$/): the part in
\* parentheses, or <<>> when the name does not match ("#" stands for \d).
MatchStamp(name) ==
    LET pattern == <<"#", "#", "#", "#", "-", "#", "#", "-", "#", "#", "T", "#", "#",
                     "-", "#", "#", "-", "#", "#", "-", "#", "#", "#", "Z",
                     ".", "z", "i", "p">>
        from == Len(name) - Len(pattern)
    IN  IF /\ from >= 0
           /\ \A i \in 1 .. Len(pattern) :
                 IF pattern[i] = "#" THEN name[from + i] \in Digits
                 ELSE name[from + i] = pattern[i]
        THEN SubSeq(name, from + 1, from + 24)
        ELSE <<>>

IsoStrSwapped(datePart) ==
    SubSeq(datePart, 1, 13) \o <<":">> \o SubSeq(datePart, 18, 19) \o <<":">>
        \o SubSeq(datePart, 15, 16) \o <<".">> \o SubSeq(datePart, 21, 23) \o <<"Z">>

\* substring(0, 13) + ":" + substring(14, 16) + ":" + substring(17, 19) + "."
\* + substring(20, 23) + "Z"
IsoStr(datePart) ==
    SubSeq(datePart, 1, 13) \o <<":">> \o SubSeq(datePart, 15, 16) \o <<":">>
        \o SubSeq(datePart, 18, 19) \o <<".">> \o SubSeq(datePart, 21, 23) \o <<"Z">>

\* new Date(isoStr) and isNaN(date.getTime()): the fields are read from their
\* places; a field out of range gives NaN.  The time is given for the dates of
\* the window, in its milliseconds; other dates lie before it (-1).
DateParse(iso) ==
    LET num(a, b) == ReadDigits(SubSeq(iso, a, b), 0)
        y == num(1, 4)
        mo == num(6, 7)
        d == num(9, 10)
        h == num(12, 13)
        mi == num(15, 16)
        s == num(18, 19)
        ms == num(21, 23)
        wellFormed ==
            /\ Len(iso) = 24
            /\ \A i \in 1 .. 24 :
                  IF i \in {5, 8} THEN iso[i] = "-"
                  ELSE IF i = 11 THEN iso[i] = "T"
                  ELSE IF i \in {14, 17} THEN iso[i] = ":"
                  ELSE IF i = 20 THEN iso[i] = "."
                  ELSE IF i = 24 THEN iso[i] = "Z"
                  ELSE iso[i] \in Digits
    IN  IF ~wellFormed \/ mo \notin 1 .. 12 \/ d \notin 1 .. 31 \/ h > 23 \/ mi > 59
           \/ s > 59
        THEN [nan |-> TRUE, time |-> 0]
        ELSE IF y = 2025 /\ mo = 12 /\ d = 31 /\ h = 23 /\ mi = 59 /\ s >= 58
        THEN [nan |-> FALSE, time |-> (s - 58) * 1000 + ms]
        ELSE IF y = 2026 /\ mo = 1 /\ d = 1 /\ h = 0 /\ mi = 0
        THEN [nan |-> FALSE, time |-> 2000 + s * 1000 + ms]
        ELSE [nan |-> FALSE, time |-> 0 - 1]

\* The entry listBackups and selectBackupFile make of a file name.
BackupEntry(tier, prefix, name) ==
    LET date == IF MatchStamp(name) = <<>> THEN [nan |-> TRUE, time |-> 0]
                ELSE DateParse(IsoStr(MatchStamp(name)))
    IN  [tier |-> tier,
         file |-> [prefix |-> prefix,
                   stamp |-> IF MatchStamp(name) = <<>> THEN "none"
                             ELSE IF date.nan THEN "bad" ELSE "iso",
                   ts |-> date.time,
                   content |-> EmptyScratch]]

InitStamp ==
    /\ db = EmptyDb
    /\ quarantine = {}
    /\ zips = <<>>
    /\ ghost = <<>>
    /\ backups = {}
    /\ autoBackups = {}
    /\ exported = {}
    /\ live = InitLive
    /\ temps = 0
    /\ now \in StampInstants
    /\ nextId = 1
    /\ nEdits = 0
    /\ running = <<>>
    /\ last = NoCommand("init")

\* Two backups are made, one now and one later, and their names are read back
\* as the listing reads them.
StampBackups ==
    /\ last.cmd = "init"
    /\ \E prefix \in StampPrefixes, other \in StampPrefixes, gap \in StampGaps :
          last' = [NoCommand("stamp") EXCEPT
                     !.name = BackupFileName(prefix, now),
                     !.input = BackupFileName(other, now + gap),
                     !.picked = <<now, now + gap>>,
                     !.shown = SortFiles(
                         { BackupEntry("manual", prefix,
                                       BackupFileName(prefix, now)),
                           BackupEntry("auto", other,
                                       BackupFileName(other, now + gap)) })]
    /\ UNCHANGED <<db, quarantine, zips, ghost, backups, autoBackups, exported, live,
                   temps, now, nextId, nEdits, running>>

NextStamp == StampBackups

SpecStamp == InitStamp /\ [][NextStamp]_vars

----------------------------------------------------------------------------
(* The interleaving specification: up to MaxProcs invocations of create,   *)
(* switch, update, delete and import are in progress at once.  Each read   *)
(* of profiles.json and each write of the whole document is one step.      *)
(* Only the registry is followed here: what an invocation does to the      *)
(* archives, the backups and the live configuration between its registry   *)
(* steps is the matter of the other specifications, and a prompt declined  *)
(* or a tool failing there ends the invocation before its write.           *)

\* An invocation starts and reaches its readProfiles(): create refuses a name
\* that is taken, switch and delete a name that is not registered, update a
\* registry without an active profile; import goes on under the sanitised name.
ConcRead ==
    /\ now < MaxCmds
    /\ \E p \in (1 .. MaxProcs) \ DOMAIN running, name \in Names,
          cmd \in {"create", "switch", "update", "delete", "import"} :
          LET profiles == ReadProfiles(Begin, [qCopyOk |-> TRUE]).profiles
              target == CASE cmd = "import" -> Sanitize(name)
                          [] cmd = "update" /\ FindActive(profiles) # 0 ->
                                 profiles[FindActive(profiles)].name
                          [] OTHER -> name
              refused == CASE cmd = "create" -> NameTaken(profiles, name)
                           [] cmd \in {"switch", "delete"} -> ~NameTaken(profiles, name)
                           [] cmd = "update" -> FindActive(profiles) = 0
                           [] OTHER -> FALSE
          IN  /\ running' =
                    IF refused THEN running
                    ELSE (p :> [pc |-> IF cmd = "create" THEN "reread" ELSE "write",
                                cmd |-> cmd, name |-> target, profiles |-> profiles,
                                zipFile |-> [name |-> target, id |-> 0]]) @@ running
              /\ last' = [NoCommand(cmd) EXCEPT
                             !.name = target,
                             !.exit = IF refused THEN 1 ELSE 0,
                             !.trace = IF refused THEN <<"read", "refused">>
                                       ELSE <<"read">>]
    /\ now' = now + 1
    /\ UNCHANGED <<db, quarantine, zips, ghost, backups, autoBackups, exported, live,
                   temps, nextId, nEdits>>

\* createProfile after its archive is written: profiles = await readProfiles().
ConcReread ==
    /\ \E p \in DOMAIN running :
          /\ running[p].pc = "reread"
          /\ running' = [running EXCEPT
                            ![p].pc = "write",
                            ![p].profiles = ReadProfiles(State, [qCopyOk |-> TRUE]).profiles,
                            ![p].zipFile = [name |-> running[p].name, id |-> nextId]]
          /\ last' = [NoCommand(running[p].cmd) EXCEPT
                         !.name = running[p].name, !.trace = <<"reread">>]
    /\ nextId' = nextId + 1
    /\ UNCHANGED <<db, quarantine, zips, ghost, backups, autoBackups, exported, live,
                   temps, now, nEdits>>

\* writeProfiles(profiles) with the array the invocation holds: create has
\* deactivated every entry of its second read and pushed its own, switch has set
\* active to (p.name === name) and stamped the target, delete has spliced its
\* entry out, update has stamped the active entry, import has spliced an entry
\* of its name out and pushed an inactive one.
ConcWrite ==
    /\ \E p \in DOMAIN running :
          LET r == running[p]
              i == IndexOf(r.profiles, r.name)
              profiles ==
                  CASE r.cmd = "create" ->
                           PushActive(DeactivateAll(r.profiles), r.name, now, r.zipFile)
                    [] r.cmd = "switch" -> Activate(r.profiles, r.name, now)
                    [] r.cmd = "delete" -> RemoveAt(r.profiles, i)
                    [] r.cmd = "update" ->
                           [r.profiles EXCEPT ![FindActive(r.profiles)].lastModified = now]
                    [] OTHER ->
                           Append(IF i # 0 THEN RemoveAt(r.profiles, i) ELSE r.profiles,
                                  [name |-> r.name, active |-> FALSE,
                                   lastModified |-> now,
                                   zipFile |-> [name |-> r.name, id |-> nextId]])
          IN  /\ r.pc = "write"
              /\ db' = WriteProfiles(State, profiles).db
              /\ nextId' = IF r.cmd = "import" THEN nextId + 1 ELSE nextId
              /\ running' = [q \in DOMAIN running \ {p} |-> running[q]]
              /\ last' = [NoCommand(r.cmd) EXCEPT
                             !.name = r.name, !.trace = <<"writeProfiles">>]
    /\ UNCHANGED <<quarantine, zips, ghost, backups, autoBackups, exported, live,
                   temps, now, nEdits>>

\* The invocation ends before its write: a prompt is declined, the backup, the
\* restore or zip fails, Deno.exit is called.
ConcAbort ==
    /\ \E p \in DOMAIN running :
          /\ running' = [q \in DOMAIN running \ {p} |-> running[q]]
          /\ last' = [NoCommand(running[p].cmd) EXCEPT
                         !.name = running[p].name, !.exit = 1, !.trace = <<"abort">>]
    /\ UNCHANGED <<db, quarantine, zips, ghost, backups, autoBackups, exported, live,
                   temps, now, nextId, nEdits>>

NextConc == ConcRead \/ ConcReread \/ ConcWrite \/ ConcAbort

SpecConc == Init /\ [][NextConc]_vars

----------------------------------------------------------------------------
(* Properties.                                                             *)

Has(e) == \E i \in 1 .. Len(last.trace) : last.trace[i] = e

\* Some occurrence of e1 comes before the first occurrence of e2.
Before(e1, e2) ==
    \E i, j \in 1 .. Len(last.trace) :
        /\ i < j
        /\ last.trace[i] = e1
        /\ last.trace[j] = e2
        /\ \A k \in 1 .. j - 1 : last.trace[k] # e2

UniqueNames(d) ==
    \A i, j \in 1 .. Len(d.profiles) :
        i # j => d.profiles[i].name # d.profiles[j].name

Actives(d) == { i \in 1 .. Len(d.profiles) : d.profiles[i].active }

\* The step is an invocation of cmd.
Ran(cmd) == now' # now /\ last'.cmd = cmd
HasNext(e) == \E i \in 1 .. Len(last'.trace) : last'.trace[i] = e

\* C1: the registry never holds two profiles of one name, and a create whose name
\* is already registered leaves the registry, the profile archives and both backup
\* tiers as they were and ends with exit status 1.
C1_UniqueNames ==
    [][ /\ UniqueNames(db')
        /\ (Ran("create") /\ Registered(last'.name)) =>
              /\ db' = db
              /\ zips' = zips
              /\ backups' = backups
              /\ autoBackups' = autoBackups
              /\ last'.exit = 1 ]_vars

C1_Witness ==
    /\ last.cmd = "create"
    /\ Has("duplicateName")
    /\ last.exit = 1
    /\ Registered(last.name)

\* C2: right after a successful create or a successful switch exactly one profile
\* is active, and it is the profile just created or switched to.
C2_ExactlyOneActive ==
    ((last.cmd = "create" /\ Has("created")) \/ (last.cmd = "switch" /\ Has("switched")))
        => /\ db.kind = "array"
           /\ \E i \in 1 .. Len(db.profiles) :
                 /\ Actives(db) = {i}
                 /\ db.profiles[i].name = last.name

C2_Witness ==
    /\ last.cmd = "create"
    /\ Has("created")
    /\ Len(db.profiles) >= 2

\* C3: after any sequence of commands from the empty registry at most one profile
\* of the registry is active.
C3_AtMostOneActive == Cardinality(Actives(db)) <= 1

C3_Witness ==
    /\ last.cmd = "switch"
    /\ Has("switched")
    /\ Len(db.profiles) >= 2
    /\ ~db.profiles[Len(db.profiles)].active

\* C4: in a switch or restore run without the skip-backup flag the wipe of the live
\* configuration comes only after a backup attempt, and after a failed attempt only
\* after the user was asked and answered yes.
C4_BackupBeforeWipe ==
    (last.cmd \in {"switch", "restore"} /\ last.options.noBackup # TRUE /\ Has("wipe"))
        => /\ Before("backupAttempt", "wipe")
           /\ Has("backupFailed") => Before("continueYes", "wipe")

\* C5: when the extraction of the archive fails in a switch or a restore, the live
\* configuration (directories and dconf namespace) is as before the command and
\* the command fails.
C5_ExtractFailureLeavesLive ==
    [][ ((Ran("switch") \/ Ran("restore")) /\ HasNext("unzipFailed"))
            => live' = live /\ last'.exit = 1 ]_vars

C5_Witness ==
    /\ last.cmd = "restore"
    /\ Has("unzipFailed")
    /\ live.dirs["share"].ent # NoEntries

\* C6: switch rewrites the registry only after a successful apply: a failed apply
\* leaves the document as it was and ends with status 1; a successful one sets the
\* target's lastModified to the later current time and no other lastModified.
C6_SwitchCommit ==
    [][ Ran("switch") =>
          /\ HasNext("switchFailed") => (db' = db /\ last'.exit = 1)
          /\ (~HasNext("switched") /\ ~Corrupt(db)) => db' = db
          /\ HasNext("switched") =>
                /\ Len(db'.profiles) = Len(db.profiles)
                /\ \A i \in 1 .. Len(db.profiles) :
                      IF db.profiles[i].name = last'.name
                      THEN /\ db'.profiles[i].lastModified = now'
                           /\ db'.profiles[i].lastModified > db.profiles[i].lastModified
                      ELSE db'.profiles[i].lastModified = db.profiles[i].lastModified
      ]_vars

C6_Witness ==
    /\ last.cmd = "switch"
    /\ Has("switchFailed")
    /\ Has("backupOk")
    /\ Len(db.profiles) >= 1

\* C7: a confirmed switch to a registered profile N whose backup and apply succeed
\* leaves N the only active profile, the entries of the registry and their order
\* as they were, exactly one new archive in the automatic tier, named with the
\* prefix pre-switch-to-<N>, and the manual tier unchanged.
C7_SwitchOutcome ==
    [][ (Ran("switch") /\ HasNext("backupOk") /\ HasNext("switched")) =>
          /\ Len(db'.profiles) = Len(db.profiles)
          /\ \A i \in 1 .. Len(db.profiles) :
                /\ db'.profiles[i].name = db.profiles[i].name
                /\ db'.profiles[i].zipFile = db.profiles[i].zipFile
                /\ db'.profiles[i].active = (db.profiles[i].name = last'.name)
          /\ \E f \in autoBackups' :
                /\ f \notin autoBackups
                /\ autoBackups' = autoBackups \cup {f}
                /\ f.prefix = <<"pre-switch-to-">> \o last'.name
          /\ backups' = backups ]_vars

\* The capture a successful switch has just applied, when the switch used the
\* selection the profile was captured with.
AppliedProfile == db.profiles[IndexOf(db.profiles, last.name)].zipFile

RoundTripDone ==
    /\ last.cmd = "switch"
    /\ Has("switched")
    /\ AppliedProfile \in DOMAIN ghost
    /\ ghost[AppliedProfile].own
    /\ ghost[AppliedProfile].sel = ComponentOptionsOf(last.options)

C9_DisabledUntouched ==
    [][ Ran("switch") =>
          LET copts == ComponentOptionsOf(last'.options)
          IN  /\ \A l \in ThemeLocs :
                    ~EnabledLoc(copts, l) => live'.dirs[l] = live.dirs[l]
              /\ ~copts.dconf => live'.dconf = live.dconf ]_vars

C9_Witness ==
    /\ last.cmd = "switch"
    /\ Has("switched")
    /\ \E l \in ThemeLocs :
          /\ ~EnabledLoc(ComponentOptionsOf(last.options), l)
          /\ zips[AppliedProfile].dirs[l].exists
          /\ zips[AppliedProfile].dirs[l].ent # live.dirs[l].ent
    /\ ~ComponentOptionsOf(last.options).dconf
    /\ zips[AppliedProfile].dconfFile.exists
    /\ zips[AppliedProfile].dconfFile.text # live.dconf

\* C10: when a command reads a registry document that is not a valid JSON array,
\* the document becomes the empty collection and a quarantine copy holding the
\* original content exists afterwards.
C10_QuarantineKeepsOriginal ==
    [][ (now' # now /\ Corrupt(db) /\ HasNext("quarantine")) =>
          /\ db'.kind = "array"
          /\ \E q \in quarantine' : q.kind = db.kind /\ q.raw = db.raw ]_vars

\* C11: delete of a registered profile removes its entry and reports success,
\* whether its archive was deleted, was missing or could not be deleted; every
\* other entry of the registry is unchanged, in the same relative order.
C11_DeleteRemovesEntry ==
    [][ (Ran("delete") /\ Registered(last'.name)) =>
          LET i == IndexOf(db.profiles, last'.name)
          IN  /\ last'.exit = 0
              /\ HasNext("deleted")
              /\ db'.kind = "array"
              /\ db'.profiles = RemoveAt(db.profiles, i)
              /\ IndexOf(db'.profiles, last'.name) = 0 ]_vars

C11_Witness ==
    /\ last.cmd = "delete"
    /\ Has("archiveMissing")
    /\ Has("deleted")
    /\ Len(db.profiles) >= 1

C11_WitnessUndeletable ==
    /\ last.cmd = "delete"
    /\ Has("archiveDeleteFailed")
    /\ Has("deleted")

\* C12: a create or backup that finds nothing to capture (the directory handed to
\* zip is empty, which is warned about) still succeeds.
C12_EmptyCaptureSucceeds ==
    (last.cmd \in {"create", "backup"} /\ Has("emptySource")) =>
        /\ last.exit = 0
        /\ ~Has("zipFailed")

\* The events by which an invocation changes a backup tier, a profile archive, the
\* live configuration or the registry.
EffectEvents ==
    {"backupAttempt", "backupOk", "archiveDeleted", "zip", "wipe", "copyBack",
     "dconfReset", "dconfLoad", "writeProfiles"}

\* C13: switch, restore and update ask the user to confirm before the first of
\* their side effects (backup, archive rewrite, wipe, registry write).
C13_ConfirmBeforeEffects ==
    last.cmd \in {"switch", "restore", "update"} =>
        \A e \in EffectEvents : Has(e) => Before("confirm", e)

\* C14: an invocation in which the user declines a prompt (the first prompt of
\* switch or update, the continue prompt after a failed backup, import's
\* overwrite prompt) exits with status 0 and leaves the registry, the profile
\* archives, both backup tiers, the live configuration and the scratch
\* directories on disk as they were.
C14_DeclineNoEffects ==
    [][ (now' # now /\ (HasNext("declined") \/ HasNext("continueNo"))) =>
          /\ last'.exit = 0
          /\ db' = db
          /\ zips' = zips
          /\ backups' = backups
          /\ autoBackups' = autoBackups
          /\ live' = live
          /\ temps' = temps ]_vars

\* C15: switch, delete or export of a name that is not registered, and import of
\* a path that does not exist, exit with a non-zero status and leave the
\* registry, the profile archives, both backup tiers, the live configuration,
\* the exported files and the scratch directories as they were.
C15_NotFoundNoEffects ==
    [][ (/\ now' # now
         /\ db.kind = "array"
         /\ \/ /\ last'.cmd \in {"switch", "delete", "export"}
               /\ IndexOf(db.profiles, last'.name) = 0
            \/ /\ last'.cmd = "import"
               /\ last'.input = <<"missing">>) =>
          /\ last'.exit # 0
          /\ HasNext("notFound")
          /\ db' = db
          /\ zips' = zips
          /\ backups' = backups
          /\ autoBackups' = autoBackups
          /\ live' = live
          /\ exported' = exported
          /\ temps' = temps ]_vars

C15_Witness ==
    /\ last.cmd = "export"
    /\ Has("notFound")
    /\ Len(db.profiles) >= 1
    /\ zips # <<>>

\* C16: a confirmed switch to a registered profile whose archive is no longer on
\* disk exits with a non-zero status and leaves the registry, the live
\* configuration and both backup tiers as they were.
C16_MissingArchiveNoEffects ==
    [][ (/\ Ran("switch")
         /\ Registered(last'.name)
         /\ db.profiles[IndexOf(db.profiles, last'.name)].zipFile \notin DOMAIN zips
         /\ HasNext("confirm")
         /\ ~HasNext("declined")
         /\ ~HasNext("continueNo")) =>
          /\ last'.exit # 0
          /\ db' = db
          /\ live' = live
          /\ backups' = backups
          /\ autoBackups' = autoBackups ]_vars

\* A text that is a number: decimal digits, with or without a minus sign.
IsNumber(text) ==
    LET digits == IF text # <<>> /\ Head(text) = "-" THEN Tail(text) ELSE text
    IN  digits # <<>> /\ \A k \in 1 .. Len(digits) : digits[k] \in Digits

NumberOf(text) ==
    IF Head(text) = "-" THEN 0 - ReadDigits(Tail(text), 0) ELSE ReadDigits(text, 0)

\* C17: with n > 0 backups listed, an empty input or 0 cancels, every input that
\* is not a number or is a number outside 0..n is reported as an invalid
\* selection and selects nothing, k in 1..n selects the k-th entry of the sorted
\* list, and the prompt is shown at most once.
C17_Selection ==
    [][ (Ran("restore") /\ AllBackups(State) # {}) =>
          LET n == Cardinality(AllBackups(State))
              input == last'.input
              prompts == { k \in 1 .. Len(last'.trace) : last'.trace[k] = "prompt" }
          IN  /\ Cardinality(prompts) <= 1
              /\ (input = <<>> \/ (IsNumber(input) /\ NumberOf(input) = 0)) =>
                    /\ HasNext("cancelled")
                    /\ last'.picked = <<>>
                    /\ last'.exit = 0
              /\ (input # <<>> /\ (~IsNumber(input) \/ NumberOf(input) \notin 0 .. n)) =>
                    /\ HasNext("invalidSelection")
                    /\ last'.picked = <<>>
              /\ (IsNumber(input) /\ NumberOf(input) \in 1 .. n) =>
                    /\ HasNext("selected")
                    /\ last'.picked = <<SortedBackups(State)[NumberOf(input)]>> ]_vars

\* C18: list-backups and the selection of restore show every .zip file of the
\* two tiers exactly once, in one order: the entries with a date first, newest
\* first, then the entries without a date, by file name.
C18_Listing ==
    [][ ((Ran("list-backups") \/ Ran("restore")) /\ AllBackups(State) # {}) =>
          LET shown == last'.shown
              n == Len(shown)
          IN  /\ n = Cardinality(AllBackups(State))
              /\ { shown[i] : i \in 1 .. n } = AllBackups(State)
              /\ \A i, j \in 1 .. n :
                    i < j =>
                       /\ HasDate(shown[j].file) => HasDate(shown[i].file)
                       /\ (HasDate(shown[i].file) /\ HasDate(shown[j].file)) =>
                             shown[i].file.ts >= shown[j].file.ts
                       /\ (~HasDate(shown[i].file) /\ ~HasDate(shown[j].file)) =>
                             LocaleCompare(shown[i].file, shown[j].file) <= 0 ]_vars

C18_Witness ==
    /\ last.cmd = "list-backups"
    /\ Len(last.shown) >= 4
    /\ \E i, j \in 1 .. Len(last.shown) :
          /\ i < j
          /\ last.shown[i].tier # last.shown[j].tier
          /\ HasDate(last.shown[i].file) /\ HasDate(last.shown[j].file)
    /\ \E i, j \in 1 .. Len(last.shown) :
          /\ i < j
          /\ ~HasDate(last.shown[i].file) /\ ~HasDate(last.shown[j].file)

\* C19: create, backup, update, switch and restore leave no scratch directory
\* behind, however they end: each one they made is removed again.
C19_ScratchRemoved ==
    [][ (Ran("create") \/ Ran("backup") \/ Ran("update") \/ Ran("switch")
            \/ Ran("restore")) =>
          /\ temps' = temps
          /\ Cardinality({ i \in 1 .. Len(last'.trace) : last'.trace[i] = "mkTemp" })
               = Cardinality({ i \in 1 .. Len(last'.trace) :
                                 last'.trace[i] = "rmTemp" }) ]_vars

C19_Witness ==
    /\ last.cmd = "restore"
    /\ Has("exception")
    /\ Cardinality({ i \in 1 .. Len(last.trace) : last.trace[i] = "mkTemp" }) = 2
    /\ temps = 0

C19_WitnessPackFailure ==
    /\ last.cmd \in {"create", "update"}
    /\ Has("zipFailed")
    /\ Has("mkTemp")
    /\ temps = 0

C19_WitnessExtractionFailure ==
    /\ last.cmd = "switch"
    /\ Has("unzipFailed")
    /\ Has("mkTemp")
    /\ temps = 0

\* C20: a failure of dconf never fails the command around it.  A dump that fails
\* or prints nothing still lets create, backup and update write their archive
\* (create registers the profile, update keeps its entry); a reset or load that
\* fails still lets the restore succeed, and a switch makes its profile active.
C20_AdapterNonFatal ==
    [][ /\ (Ran("create") /\ HasNext("dconfDumpFailed") /\ ~HasNext("zipToolFault")) =>
             /\ last'.exit = 0
             /\ HasNext("created")
             /\ db'.kind = "array"
             /\ \E i \in 1 .. Len(db'.profiles) :
                   /\ db'.profiles[i].name = last'.name
                   /\ db'.profiles[i].zipFile \in DOMAIN zips'
        /\ (Ran("backup") /\ HasNext("dconfDumpFailed") /\ ~HasNext("zipToolFault")) =>
             /\ last'.exit = 0
             /\ HasNext("backupOk")
             /\ Cardinality(backups') = Cardinality(backups) + 1
        /\ (Ran("update") /\ HasNext("dconfDumpFailed") /\ ~HasNext("zipToolFault")) =>
             /\ last'.exit = 0
             /\ HasNext("updated")
        /\ (Ran("restore")
              /\ (HasNext("dconfResetFailed") \/ HasNext("dconfLoadFailed"))) =>
             last'.exit = 0
        /\ (Ran("switch")
              /\ (HasNext("dconfResetFailed") \/ HasNext("dconfLoadFailed"))) =>
             /\ last'.exit = 0
             /\ db'.kind = "array"
             /\ \A i \in 1 .. Len(db'.profiles) :
                   db'.profiles[i].active <=> db'.profiles[i].name = last'.name ]_vars

\* C21: a copy that fails while the live settings are staged (one entry, or a
\* directory that exists and cannot be listed) never aborts the capture: create
\* and backup still write their archive, and the archive of a new profile holds
\* every entry of the user's directories whose copy did not fail.
C21_CaptureSurvivesCopyFailure ==
    [][ /\ (Ran("create")
              /\ (HasNext("captureSkipped") \/ HasNext("listFailed"))
              /\ ~HasNext("zipToolFault") /\ ~HasNext("emptySource")) =>
             /\ last'.exit = 0
             /\ HasNext("created")
             /\ db'.kind = "array"
             /\ \E i \in 1 .. Len(db'.profiles) :
                   /\ db'.profiles[i].name = last'.name
                   /\ db'.profiles[i].zipFile \in DOMAIN zips'
                   /\ \A loc \in Locs \ SystemLocs, e \in EntryNames :
                        (/\ EnabledLoc(ComponentOptionsOf(last'.options), loc)
                         /\ live.dirs[loc].exists
                         /\ live.dirs[loc].ent[e] # 0
                         /\ <<loc, e>> \notin ghost'[db'.profiles[i].zipFile].skipped) =>
                           zips'[db'.profiles[i].zipFile].dirs[loc].ent[e]
                               = live.dirs[loc].ent[e]
        /\ (Ran("backup")
              /\ (HasNext("captureSkipped") \/ HasNext("listFailed"))
              /\ ~HasNext("zipToolFault") /\ ~HasNext("emptySource")) =>
             /\ last'.exit = 0
             /\ HasNext("backupOk") ]_vars

\* C22: a create whose pack step fails ends with a non-zero status and leaves
\* the registry as it was (no entry added, no active flag changed) and adds no
\* archive.
C22_PackFailureKeepsRegistry ==
    [][ (Ran("create") /\ HasNext("zipFailed")) =>
          /\ last'.exit # 0
          /\ zips' = zips
          /\ db.kind = "array" => db' = db
          /\ db.kind # "array" => (db'.kind = "array" => db'.profiles = <<>>) ]_vars

C22_Witness ==
    /\ last.cmd = "create"
    /\ Has("zipFailed")
    /\ last.exit = 1
    /\ db.kind = "array"
    /\ Len(db.profiles) >= 1
    /\ \E i \in 1 .. Len(db.profiles) : db.profiles[i].active

\* The texts a name may be made of: single safe characters, and the pieces of
\* the names import generates (imported-<millis>, imported-profile-<millis>).
SafeTokens ==
    SafeChars \cup {"imported-", "imported-profile-"}
        \cup { ToString(n) : n \in 0 .. MaxCmds }

IsSafeName(name) == name # <<>> /\ \A k \in 1 .. Len(name) : name[k] \in SafeTokens

\* C23: every profile name in the registry is non-empty and made of letters,
\* digits, hyphen and underscore only, whatever names create and import were given.
C23_NamesSanitised ==
    (db.exists /\ db.kind = "array") =>
        \A i \in 1 .. Len(db.profiles) : IsSafeName(db.profiles[i].name)

C25_ResetThenLoad ==
    [][ (Ran("restore") /\ HasNext("selected")) =>
          LET blob == last'.picked[1].file.content.dconfFile
              enabled == ComponentOptionsOf(last'.options).dconf
              tr == last'.trace
          IN  /\ HasNext("dconfReset") <=> (HasNext("wipe") /\ enabled /\ blob.exists)
              /\ HasNext("dconfLoad") <=>
                    (HasNext("wipe") /\ enabled /\ blob.exists /\ blob.text # NoEntries)
              /\ \A j \in 1 .. Len(tr) :
                    tr[j] = "dconfLoad" =>
                        \E i \in 1 .. j - 1 : tr[i] = "dconfReset"
              /\ (HasNext("dconfResetFailed") /\ blob.text # NoEntries) =>
                    HasNext("dconfLoad") ]_vars

C25_Witness ==
    /\ last.cmd = "restore"
    /\ Has("dconfResetFailed")
    /\ Before("dconfReset", "dconfLoad")
    /\ last.exit = 0

C25_WitnessBlank ==
    /\ last.cmd = "restore"
    /\ Has("dconfReset")
    /\ ~Has("dconfLoad")
    /\ last.picked[1].file.content.dconfFile.exists

C25_WitnessDisabled ==
    /\ last.cmd = "restore"
    /\ Has("wipe")
    /\ ~ComponentOptionsOf(last.options).dconf
    /\ last.picked[1].file.content.dconfFile.exists
    /\ ~Has("dconfReset")

\* The archive an apply works on: the one registered for the profile switched
\* to, or the backup picked for a restore.
AppliedContent ==
    IF last'.cmd = "switch"
    THEN zips[db.profiles[IndexOf(db.profiles, last'.name)].zipFile]
    ELSE last'.picked[1].file.content

C26_WitnessRestore ==
    /\ last.cmd = "restore"
    /\ Has("restored")
    /\ nEdits = 1
    /\ live.dirs["share"].exists /\ live.dirs["config"].exists

\* C27: list-backups, and the selection of restore as long as it returns no
\* backup, change nothing: the files of both backup tiers, the registry, the
\* profile archives, the exports, the live settings and the scratch directories
\* are as before.
C27_ListingReadOnly ==
    [][ (Ran("list-backups") \/ (Ran("restore") /\ ~HasNext("selected"))) =>
          /\ backups' = backups
          /\ autoBackups' = autoBackups
          /\ db' = db
          /\ quarantine' = quarantine
          /\ zips' = zips
          /\ exported' = exported
          /\ live' = live
          /\ temps' = temps ]_vars

C27_Witness ==
    /\ last.cmd = "list-backups"
    /\ Has("listed")
    /\ backups # {}
    /\ autoBackups # {}

C27_WitnessSelection ==
    /\ last.cmd = "restore"
    /\ Has("invalidSelection")
    /\ autoBackups # {}
    /\ db.kind = "array" /\ db.profiles # <<>>

C27_SelectingReadOnly ==
    [][ (Ran("restore") /\ HasNext("selected")) =>
          /\ last'.picked[1] \in AllBackups(State)
          /\ backups' = backups
          /\ \A f \in autoBackups : f \in autoBackups'
          /\ db' = db
          /\ zips' = zips ]_vars

\* C28: the instant written into a backup's file name is read back from the
\* name as the same instant, to the millisecond, for every prefix; so a backup
\* the program made is never listed as undated, and of two backups made at
\* different instants the later one is listed first.
C28_StampRoundTrip ==
    last.cmd = "stamp" =>
        /\ MatchStamp(last.name) = StampOf(ToISOString(last.picked[1]))
        /\ DateParse(IsoStr(MatchStamp(last.name)))
              = [nan |-> FALSE, time |-> last.picked[1]]
        /\ DateParse(IsoStr(MatchStamp(last.input)))
              = [nan |-> FALSE, time |-> last.picked[2]]
        /\ Len(last.shown) = 2
        /\ \A i \in 1 .. 2 : HasDate(last.shown[i].file)
        /\ last.shown[1].tier = "auto" /\ last.shown[1].file.ts = last.picked[2]
        /\ last.shown[2].tier = "manual" /\ last.shown[2].file.ts = last.picked[1]

C28_Witness ==
    /\ last.cmd = "stamp"
    /\ last.picked[1] < 2000 /\ last.picked[2] >= 2000
    /\ Len(last.name) >= Len(last.input) + 24
    /\ last.shown[1].file.ts = last.picked[2]

\* C29: an update that fails at the pack step leaves the archive of the active
\* profile in place with the content it had, so every entry that had its archive
\* before the update still has it.
C29_FailedUpdateKeepsArchive ==
    [][ (Ran("update") /\ HasNext("updateFailed") /\ db.kind = "array") =>
          /\ db' = db
          /\ \A i \in 1 .. Len(db.profiles) :
                db.profiles[i].zipFile \in DOMAIN zips =>
                    /\ db.profiles[i].zipFile \in DOMAIN zips'
                    /\ zips'[db.profiles[i].zipFile] = zips[db.profiles[i].zipFile] ]_vars

\* C30: an import that overwrites a profile and fails at the pack step leaves
\* the registry and the archive of that profile as they were.
C30_FailedImportKeepsArchive ==
    [][ (Ran("import") /\ HasNext("zipFailed") /\ db.kind = "array") =>
          /\ db' = db
          /\ \A i \in 1 .. Len(db.profiles) :
                db.profiles[i].zipFile \in DOMAIN zips =>
                    /\ db.profiles[i].zipFile \in DOMAIN zips'
                    /\ zips'[db.profiles[i].zipFile] = zips[db.profiles[i].zipFile] ]_vars

\* C31: a switch that ends committed and successful has copied every entry of
\* the archive's core subtrees and enabled theme, icon and font subtrees to its
\* live location: no copy failed after the wipe.
C31_SwitchOnlyAfterFullCopy ==
    [][ (Ran("switch") /\ HasNext("switched")) =>
          LET content == zips[db.profiles[IndexOf(db.profiles, last'.name)].zipFile]
              copts == ComponentOptionsOf(last'.options)
          IN  /\ ~HasNext("copySkipped")
              /\ \A loc \in Locs, e \in EntryNames :
                    (/\ EnabledLoc(copts, loc)
                     /\ content.dirs[loc].exists
                     /\ content.dirs[loc].ent[e] # 0) =>
                        live'.dirs[loc].ent[e] = content.dirs[loc].ent[e] ]_vars

\* The same, for the switches in which no copy threw: they do hold every entry
\* of the archive afterwards.
C31_SwitchCopiesUnlessSkipped ==
    [][ (Ran("switch") /\ HasNext("switched") /\ ~HasNext("copySkipped")) =>
          LET content == zips[db.profiles[IndexOf(db.profiles, last'.name)].zipFile]
              copts == ComponentOptionsOf(last'.options)
          IN  \A loc \in Locs, e \in EntryNames :
                    (/\ EnabledLoc(copts, loc)
                     /\ content.dirs[loc].exists
                     /\ content.dirs[loc].ent[e] # 0) =>
                        live'.dirs[loc].ent[e] = content.dirs[loc].ent[e] ]_vars

\* A committed switch in which a copy threw after the wipe.
C31_WitnessCommittedAfterSkip ==
    /\ last.cmd = "switch"
    /\ Has("switched")
    /\ Before("wipe", "copySkipped")
    /\ last.exit = 0
    /\ \E i \in 1 .. Len(db.profiles) :
          db.profiles[i].name = last.name /\ db.profiles[i].active

\* C32: an import, whatever its outcome, leaves the set of names of the active
\* profiles as it was, and the entry it registers is inactive.
C32_ImportKeepsActive ==
    [][ (Ran("import") /\ db.kind = "array") =>
          /\ db'.kind = "array"
          /\ { db'.profiles[i].name : i \in Actives(db') }
                = { db.profiles[i].name : i \in Actives(db) }
          /\ HasNext("imported") =>
                \E i \in 1 .. Len(db'.profiles) :
                    /\ db'.profiles[i].zipFile \notin DOMAIN zips
                    /\ db'.profiles[i].zipFile \in DOMAIN zips'
                    /\ ~db'.profiles[i].active ]_vars

\* The same, for the imports that overwrite no active profile: only the name
\* that an accepted overwrite replaces can leave the set of active names.
C32_ImportKeepsOtherActives ==
    [][ (Ran("import") /\ db.kind = "array") =>
          /\ db'.kind = "array"
          /\ \A n \in { db.profiles[i].name : i \in Actives(db) } :
                n \in { db'.profiles[i].name : i \in Actives(db') }
                \/ /\ HasNext("imported")
                   /\ n = db'.profiles[Len(db'.profiles)].name
          /\ { db'.profiles[i].name : i \in Actives(db') }
                \subseteq { db.profiles[i].name : i \in Actives(db) } ]_vars

\* An accepted overwrite of the active profile: afterwards no profile is active.
C32_WitnessOverwriteActive ==
    /\ last.cmd = "import"
    /\ Has("archiveDeleted")
    /\ Has("imported")
    /\ Len(db.profiles) >= 1
    /\ Actives(db) = {}

\* C33: an import leaves no scratch directory behind, however it ends: the one
\* it made for the extraction is removed on success, on an extraction failure,
\* on a declined overwrite and on a pack failure.
C33_ImportScratchRemoved ==
    [][ Ran("import") =>
          /\ temps' = temps
          /\ HasNext("mkTemp") => HasNext("rmTemp") ]_vars

\* The same, for the imports that end by returning from the callback: a
\* completed import removes its scratch directory, and an import of a missing
\* file makes none.
C33_ImportScratchRemovedOnReturn ==
    [][ (Ran("import") /\ ~HasNext("unzipFailed") /\ ~HasNext("declined")
            /\ ~HasNext("zipFailed")) =>
          /\ temps' = temps
          /\ HasNext("mkTemp") => HasNext("rmTemp") ]_vars

\* Each of the three exits taken inside the callback leaves the directory.
C33_WitnessLeakOnPackFailure ==
    last.cmd = "import" /\ Has("zipFailed") /\ Has("mkTemp") /\ ~Has("rmTemp")
        /\ temps >= 1

C33_WitnessLeakOnDecline ==
    last.cmd = "import" /\ Has("declined") /\ Has("mkTemp") /\ ~Has("rmTemp")
        /\ temps >= 1

C33_WitnessLeakOnExtractionFailure ==
    last.cmd = "import" /\ Has("unzipFailed") /\ Has("mkTemp") /\ ~Has("rmTemp")
        /\ temps >= 1

\* C34: an apply removes no entry from a theme, icon or font directory, and
\* after it every enabled one holds its previous entries together with the
\* archive's, the archive's version where both have the name.
C34_ThemeDirsMerged ==
    [][ ((Ran("switch") \/ Ran("restore")) /\ HasNext("copyBack")) =>
          \A loc \in ThemeLocs, e \in EntryNames :
              /\ live.dirs[loc].ent[e] # 0 => live'.dirs[loc].ent[e] # 0
              /\ EnabledLoc(ComponentOptionsOf(last'.options), loc) =>
                    live'.dirs[loc].ent[e] =
                        IF AppliedContent.dirs[loc].exists
                              /\ AppliedContent.dirs[loc].ent[e] # 0
                        THEN AppliedContent.dirs[loc].ent[e]
                        ELSE live.dirs[loc].ent[e] ]_vars

\* The same, with the entries whose copy threw left as they were: no entry is
\* removed, and every entry copied has the archive's version.
C34_ThemeDirsMergedUnlessSkipped ==
    [][ ((Ran("switch") \/ Ran("restore")) /\ HasNext("copyBack")) =>
          \A loc \in ThemeLocs, e \in EntryNames :
              /\ live.dirs[loc].ent[e] # 0 => live'.dirs[loc].ent[e] # 0
              /\ ~EnabledLoc(ComponentOptionsOf(last'.options), loc) =>
                    live'.dirs[loc] = live.dirs[loc]
              /\ live'.dirs[loc].ent[e] \in
                    {live.dirs[loc].ent[e], AppliedContent.dirs[loc].ent[e]}
              /\ (EnabledLoc(ComponentOptionsOf(last'.options), loc)
                      /\ ~HasNext("copySkipped")) =>
                    live'.dirs[loc].ent[e] =
                        IF AppliedContent.dirs[loc].exists
                              /\ AppliedContent.dirs[loc].ent[e] # 0
                        THEN AppliedContent.dirs[loc].ent[e]
                        ELSE live.dirs[loc].ent[e] ]_vars

\* An apply that left an entry added after the capture in a theme directory and
\* replaced another one by the archive's version.
C34_WitnessMerged ==
    /\ last.cmd = "switch"
    /\ Has("switched")
    /\ ~Has("copySkipped")
    /\ AppliedProfile \in DOMAIN zips
    /\ \E loc \in ThemeLocs, e1, e2 \in EntryNames :
          /\ EnabledLoc(ComponentOptionsOf(last.options), loc)
          /\ zips[AppliedProfile].dirs[loc].exists
          /\ zips[AppliedProfile].dirs[loc].ent[e1] = 0
          /\ live.dirs[loc].ent[e1] # 0
          /\ zips[AppliedProfile].dirs[loc].ent[e2] # 0
          /\ live.dirs[loc].ent[e2] = zips[AppliedProfile].dirs[loc].ent[e2]

\* An apply in which the copy of a theme, icon or font entry threw: the live
\* directory lacks the archive's version of it.
C34_WitnessSkipped ==
    /\ last.cmd = "switch"
    /\ Has("switched")
    /\ Has("copySkipped")
    /\ AppliedProfile \in DOMAIN zips
    /\ \E loc \in ThemeLocs, e \in EntryNames :
          /\ EnabledLoc(ComponentOptionsOf(last.options), loc)
          /\ zips[AppliedProfile].dirs[loc].ent[e] # 0
          /\ live.dirs[loc].ent[e] # zips[AppliedProfile].dirs[loc].ent[e]

\* C35: restore and the manual backup never write the registry: whatever their
\* outcome, the registry document, and with it every profile's name, active
\* flag, lastModified and archive path, is as before, also when the restore
\* replaced the live configuration.
C35_RegistryUntouched ==
    [][ (Ran("restore") \/ Ran("backup")) =>
          /\ db'.kind = db.kind
          /\ db'.raw = db.raw
          /\ db'.profiles = db.profiles
          /\ quarantine' = quarantine ]_vars

C35_Witness ==
    /\ last.cmd = "restore"
    /\ Has("restored")
    /\ Has("wipe")
    /\ nEdits >= 1
    /\ Len(db.profiles) >= 1
    /\ Actives(db) # {}

C35_WitnessBackup ==
    /\ last.cmd = "backup"
    /\ last.exit = 0
    /\ Len(db.profiles) >= 1
    /\ Actives(db) # {}

C35_WitnessFailure ==
    /\ last.cmd \in {"restore", "backup"}
    /\ last.exit = 1
    /\ Len(db.profiles) >= 1

\* C36: when invocations of create for one name run interleaved, the document
\* a create writes never holds two entries of its name.
C36_ConcurrentCreateUnique ==
    [][ (last'.cmd = "create" /\ last'.trace = <<"writeProfiles">>) =>
          Cardinality({ i \in 1 .. Len(db'.profiles) :
                          db'.profiles[i].name = last'.name }) <= 1 ]_vars

\* The same, for the creates in whose second read the name is not registered:
\* the second read is not followed by a second check of the name, so only these
\* are sure to write no duplicate.
C36_UniqueWhenSecondReadLacksName ==
    [][ \A p \in DOMAIN running :
          (/\ running[p].cmd = "create" /\ running[p].pc = "write"
           /\ p \notin DOMAIN running'
           /\ last'.trace = <<"writeProfiles">>
           /\ ~NameTaken(running[p].profiles, running[p].name)
           /\ UniqueNames(running[p])) =>
             UniqueNames(db') ]_vars

\* Two creates of one name, both past their first read, have both written.
C36_WitnessDuplicate ==
    /\ last.cmd = "create"
    /\ last.trace = <<"writeProfiles">>
    /\ Cardinality({ i \in 1 .. Len(db.profiles) : db.profiles[i].name = last.name }) = 2

\* C37: under every interleaving of invocations of create, switch, update,
\* delete and import, two of them in progress at a time, every registry document
\* written has at most one active profile.
C37_WrittenAtMostOneActive ==
    [][ last'.trace = <<"writeProfiles">> => Cardinality(Actives(db')) <= 1 ]_vars

\* The same, for the writes of invocations whose read of the registry held no
\* name twice and at most one active profile.
C37_AtMostOneActiveFromUniqueNames ==
    [][ \A p \in DOMAIN running :
          (/\ running[p].pc = "write"
           /\ p \notin DOMAIN running'
           /\ last'.trace = <<"writeProfiles">>
           /\ UniqueNames(running[p])
           /\ Cardinality(Actives(running[p])) <= 1) =>
             Cardinality(Actives(db')) <= 1 ]_vars

\* A switch to a name that two interleaved creates have registered twice.
C37_WitnessTwoActive ==
    /\ last.cmd = "switch"
    /\ last.trace = <<"writeProfiles">>
    /\ Cardinality(Actives(db)) = 2

\* Two invocations in progress, one of them a switch, on a registry without
\* duplicates; and a write made from a read that another write has overtaken.
C37_WitnessInterleaved ==
    /\ last.trace = <<"writeProfiles">>
    /\ UniqueNames(db)
    /\ Len(db.profiles) >= 1
    /\ \E p \in DOMAIN running :
          /\ running[p].cmd \in {"switch", "delete", "update"}
          /\ running[p].profiles # db.profiles

\* C38: reset removes the profiles root only after two affirmative
\* confirmations in a row; with either one declined the registry, the profile
\* archives, the quarantined copies and both backup tiers are as before; after
\* a completed reset nothing of the root is left and the next invocation starts
\* from an empty registry and empty backup tiers.
C38_ResetAfterTwoConfirmations ==
    [][ /\ Ran("reset") =>
              /\ HasNext("removeRoot") =>
                    /\ Len(last'.trace) >= 3
                    /\ SubSeq(last'.trace, 1, 3) = <<"confirm", "confirm2", "removeRoot">>
              /\ HasNext("declined") =>
                    /\ last'.exit = 0
                    /\ db'.kind = db.kind /\ db'.raw = db.raw
                    /\ db'.profiles = db.profiles
                    /\ zips' = zips
                    /\ quarantine' = quarantine
                    /\ backups' = backups
                    /\ autoBackups' = autoBackups
              /\ HasNext("resetDone") =>
                    /\ ~db'.exists
                    /\ zips' = <<>> /\ quarantine' = {}
                    /\ backups' = {} /\ autoBackups' = {}
        /\ (last.cmd = "reset" /\ Has("resetDone")) =>
              /\ Begin.db = EmptyDb
              /\ Begin.zips = <<>>
              /\ Begin.backups = {} /\ Begin.autoBackups = {}
              /\ \A cmd \in {"create", "import", "backup", "switch", "update",
                               "delete", "export", "restore", "list-backups"} :
                    Ran(cmd) =>
                        /\ Len(db'.profiles) <= 1
                        /\ Cardinality(backups' \cup autoBackups') <= 1
                        /\ Cardinality(DOMAIN zips') <= 1 ]_vars

\* A completed reset of a root that held a profile archive and a backup.
C38_Witness ==
    /\ last.cmd = "reset"
    /\ Has("resetDone")
    /\ ~db.exists
    /\ nextId >= 2
    /\ now = 3

\* The second confirmation declined with a profile registered and a backup kept.
C38_WitnessDeclinedSecond ==
    /\ last.cmd = "reset"
    /\ Has("confirm2") /\ Has("declined")
    /\ Len(db.profiles) >= 1
    /\ autoBackups \cup backups # {}

\* A create after a completed reset: its profile is the only one.
C38_WitnessNextInvocation ==
    /\ last.cmd = "create"
    /\ Has("created")
    /\ nextId >= 3
    /\ Len(db.profiles) = 1
    /\ Cardinality(DOMAIN zips) = 1
    /\ now = 3

====
